---- MODULE Spec2Model ----
(***************************************************************************)
(* A model of the inverted-index family of rchuk/uni_information_retrieval *)
(* (crates pw1..pw8): the tokeniser, the doc-posting, positional, bigram   *)
(* and tf-idf indexes with their merge, the query evaluation over the      *)
(* LogicNode AST, the compressed persistence (front-coded dictionary and   *)
(* variable-byte postings) and the parallel builder.                       *)
(*                                                                         *)
(* A Rust String is modelled as the sequence of its chars (code points);   *)
(* as_bytes / from_utf8 are the UTF-8 conversions below.  A HashMap is a   *)
(* function whose DOMAIN is the key set; a HashSet / BTreeSet is a set.    *)
(***************************************************************************)
EXTENDS Integers, Sequences, FiniteSets, TLC

VARIABLES
    \* operands of the merge laws: a sequence of partial results
    m_init, m_parts,
    \* the parallel builder (main): corpus, workers, channel, reducer
    b_corpus, b_fail, b_worker, b_chan, b_taken, b_accs, b_pc, b_final,
    \* the query stage: corpus, built indexes, the last query and its result
    q_corpus, q_index, q_pos, q_two, q_ast, q_kind, q_result,
    \* compressed persistence: index, byte stream, what was read back
    p_index, p_bytes, p_cut, p_read,
    \* variable-byte coding of one integer
    v_n, v_bytes, v_tail, v_dec,
    \* the query language: text, tokens, operands left, parse result, and
    \* the index the query is put to with its answer
    x_text, x_tokens, x_operands, x_result, x_index, x_answer,
    \* the tf-idf index: built part, vectors, leaders, followers, last answer
    t_index, t_k, t_vectors, t_leaders, t_followers, t_result,
    \* the dictionary builder (pw1): files, jobs' results, channel, reducer
    d_files, d_results, d_chan, d_taken, d_acc, d_pc,
    \* the segmented index (pw7): the index, the partial index of the
    \* document being lexed, what was added to each, the calls made
    s_index, s_part, s_added, s_part_added, s_calls, s_merges,
    \* the positional algebra: three TermPositions values and what an
    \* operation made of them
    g_a, g_b, g_c, g_out,
    \* the bigram index and the add_term calls it has received
    w_index, w_calls,
    \* the doc-posting index under add_term, merge, load, read_compressed
    u_index, u_ops, u_last

m_vars == <<m_init, m_parts>>
b_vars == <<b_corpus, b_fail, b_worker, b_chan, b_taken, b_accs, b_pc, b_final>>
q_vars == <<q_corpus, q_index, q_pos, q_two, q_ast, q_kind, q_result>>
p_vars == <<p_index, p_bytes, p_cut, p_read>>
v_vars == <<v_n, v_bytes, v_tail, v_dec>>
x_vars == <<x_text, x_tokens, x_operands, x_result, x_index, x_answer>>
t_vars == <<t_index, t_k, t_vectors, t_leaders, t_followers, t_result>>
d_vars == <<d_files, d_results, d_chan, d_taken, d_acc, d_pc>>
s_vars == <<s_index, s_part, s_added, s_part_added, s_calls, s_merges>>
g_vars == <<g_a, g_b, g_c, g_out>>
w_vars == <<w_index, w_calls>>
u_vars == <<u_index, u_ops, u_last>>
n_vars == <<s_vars, g_vars, w_vars, u_vars>>
a_vars == <<m_vars, b_vars, q_vars, p_vars, v_vars>>
e_vars == <<x_vars, t_vars, d_vars, n_vars>>
vars == <<a_vars, e_vars>>

-----------------------------------------------------------------------------
(* Generic helpers                                                         *)

EmptyMap == [k \in {} |-> {}]

MapGet(m, k, default) == IF k \in DOMAIN m THEN m[k] ELSE default

Max(a, b) == IF a >= b THEN a ELSE b

RECURSIVE SeqsUpTo(_, _)
\* all sequences over S of length at most n
SeqsUpTo(S, n) ==
    IF n = 0 THEN {<<>>}
    ELSE LET shorter == SeqsUpTo(S, n - 1)
         IN shorter \cup {Append(s, x) : s \in shorter, x \in S}

RECURSIVE SumOver(_, _)
\* the sum of f[k] over the keys in S
SumOver(f, S) ==
    IF S = {} THEN 0
    ELSE LET k == CHOOSE x \in S : TRUE
         IN f[k] + SumOver(f, S \ {k})

-----------------------------------------------------------------------------
(* Characters: char::is_alphabetic and char::to_lowercase on the code      *)
(* points the model uses (ASCII letters, the Cyrillic block with IO).      *)

Apostrophe == 39
Newline == 10

IsAlphabetic(ch) ==
    \/ ch \in 65..90
    \/ ch \in 97..122
    \/ ch \in 1040..1103
    \/ ch = 1025
    \/ ch = 1105

\* char::to_lowercase yields a sequence of chars
ToLowercase(ch) ==
    IF ch \in 65..90 THEN <<ch + 32>>
    ELSE IF ch \in 1040..1071 THEN <<ch + 32>>
    ELSE IF ch = 1025 THEN <<1105>>
    ELSE <<ch>>

-----------------------------------------------------------------------------
(* Lexer::lex (pw3): the tokens in order, each lowercased, and the stats.  *)
(* The k-th token (k from 0) is handed to add_term with position k.        *)

LexerStatsDefault == [characters_read |-> 0, characters_ignored |-> 0, lines |-> 0]

LexerStats_merge(self, other) ==
    [characters_read |-> self.characters_read + other.characters_read,
     characters_ignored |-> self.characters_ignored + other.characters_ignored,
     lines |-> self.lines + other.lines]

RECURSIVE LexLoop(_, _, _, _, _)
LexLoop(text, i, word, tokens, stats) ==
    IF i > Len(text)
    THEN [tokens |-> IF word # <<>> THEN Append(tokens, word) ELSE tokens,
          stats |-> stats]
    ELSE LET ch == text[i]
             read == [stats EXCEPT !.characters_read = @ + 1]
         IN IF IsAlphabetic(ch) \/ (ch = Apostrophe /\ word # <<>>)
            THEN LexLoop(text, i + 1, word \o ToLowercase(ch), tokens, read)
            ELSE LexLoop(text, i + 1, <<>>,
                         IF word # <<>> THEN Append(tokens, word) ELSE tokens,
                         [read EXCEPT !.characters_ignored = @ + 1,
                                      !.lines = IF ch = Newline THEN @ + 1 ELSE @])

Lex(text) ==
    LexLoop(text, 1, <<>>, <<>>, [LexerStatsDefault EXCEPT !.lines = 1])

-----------------------------------------------------------------------------
(* Doc-posting index (pw6): documents is the universe, index maps a term   *)
(* to its document set.                                                    *)

MapPut(m, k, v) == [x \in DOMAIN m \cup {k} |-> IF x = k THEN v ELSE m[x]]

pw6_new == [documents |-> {}, index |-> EmptyMap]

pw6_term_positions(self, term) == MapGet(self.index, term, {})

\* mutant of pw6_add_term: the document is not put into the universe
pw6_add_term_no_documents(self, term, document_id) ==
    [documents |-> self.documents,
     index |-> MapPut(self.index, term,
                      MapGet(self.index, term, {}) \cup {document_id})]

pw6_add_term(self, term, document_id) ==
    [documents |-> self.documents \cup {document_id},
     index |-> MapPut(self.index, term,
                      MapGet(self.index, term, {}) \cup {document_id})]

\* mutant of pw6_merge_term_positions: the universe is not extended
pw6_merge_term_positions_no_documents(self, term, positions) ==
    [documents |-> self.documents,
     index |-> MapPut(self.index, term, MapGet(self.index, term, {}) \cup positions)]

pw6_merge_term_positions(self, term, positions) ==
    [documents |-> self.documents \cup positions,
     index |-> MapPut(self.index, term, MapGet(self.index, term, {}) \cup positions)]

RECURSIVE pw6_merge_drain(_, _, _)
\* other.index.drain().for_each(...): one call per entry of other
pw6_merge_drain(self, other_index, left) ==
    IF left = {} THEN self
    ELSE LET term == CHOOSE t \in left : TRUE
         IN pw6_merge_drain(pw6_merge_term_positions(self, term, other_index[term]),
                            other_index, left \ {term})

pw6_merge(self, other) == pw6_merge_drain(self, other.index, DOMAIN other.index)

RECURSIVE pw6_lex_into(_, _, _, _)
\* Lexer::lex (pw6): add_term for every token in order
pw6_lex_into(index, tokens, k, document_id) ==
    IF k > Len(tokens) THEN index
    ELSE pw6_lex_into(pw6_add_term(index, tokens[k], document_id),
                      tokens, k + 1, document_id)

\* add_file_to_index (pw6): a fresh index holding the one document
pw6_add_file_to_index(document_id, text) ==
    pw6_lex_into(pw6_new, Lex(text).tokens, 1, document_id)

-----------------------------------------------------------------------------
(* Positional index (pw3).  TermPositions maps a document to the sorted    *)
(* set of its positions; a document with the empty set is a member only.   *)

TermPositions_new == EmptyMap

TermPositions_documents(self) == DOMAIN self

TermPositions_add_document(self, document_id) ==
    MapPut(self, document_id, MapGet(self, document_id, {}))

TermPositions_add_position(self, document_id, position) ==
    MapPut(self, document_id, MapGet(self, document_id, {}) \cup {position})

TermPositions_merge_positions(self, document_id, positions) ==
    MapPut(self, document_id, MapGet(self, document_id, {}) \cup positions)

RECURSIVE TermPositions_merge_drain(_, _, _)
TermPositions_merge_drain(self, other, left) ==
    IF left = {} THEN self
    ELSE LET d == CHOOSE x \in left : TRUE
         IN TermPositions_merge_drain(TermPositions_merge_positions(self, d, other[d]),
                                      other, left \ {d})

TermPositions_merge(self, other) == TermPositions_merge_drain(self, other, DOMAIN other)

pw3_new == [documents |-> TermPositions_new, index |-> EmptyMap]

pw3_get_term_positions(self, term) == MapGet(self.index, term, TermPositions_new)

pw3_add_term(self, term, document_id, position) ==
    [documents |-> TermPositions_add_document(self.documents, document_id),
     index |-> MapPut(self.index, term,
                      TermPositions_add_position(MapGet(self.index, term, TermPositions_new),
                                                 document_id, position))]

RECURSIVE pw3_add_documents(_, _)
pw3_add_documents(documents, left) ==
    IF left = {} THEN documents
    ELSE LET d == CHOOSE x \in left : TRUE
         IN pw3_add_documents(TermPositions_add_document(documents, d), left \ {d})

pw3_merge_term_positions(self, term, positions) ==
    [documents |-> pw3_add_documents(self.documents, TermPositions_documents(positions)),
     index |-> MapPut(self.index, term,
                      TermPositions_merge(MapGet(self.index, term, TermPositions_new),
                                          positions))]

RECURSIVE pw3_merge_drain(_, _, _)
pw3_merge_drain(self, other_index, left) ==
    IF left = {} THEN self
    ELSE LET term == CHOOSE t \in left : TRUE
         IN pw3_merge_drain(pw3_merge_term_positions(self, term, other_index[term]),
                            other_index, left \ {term})

pw3_merge(self, other) == pw3_merge_drain(self, other.index, DOMAIN other.index)

RECURSIVE pw3_lex_into(_, _, _, _)
\* Lexer::lex / Lexer::add_term (pw3): token k (from 1) gets word ordinal k - 1
pw3_lex_into(index, tokens, k, document_id) ==
    IF k > Len(tokens) THEN index
    ELSE pw3_lex_into(pw3_add_term(index, tokens[k], document_id, k - 1),
                      tokens, k + 1, document_id)

-----------------------------------------------------------------------------
(* Two-word (bigram) index (pw3).  prev_word is <<>> for None and          *)
(* <<word, document>> for Some.                                            *)

Underscore == 95

TwoWordIndex_new == [index |-> EmptyMap, prev_word |-> <<>>]

TwoWordIndex_get_term_documents(self, term) == MapGet(self.index, term, {})

TwoWordIndex_documents(self) == UNION {self.index[t] : t \in DOMAIN self.index}

\* mutant of TwoWordIndex_add_term: the document of the previous word is not
\* compared
TwoWordIndex_add_term_any_document(self, word, document_id) ==
    [index |-> IF self.prev_word # <<>>
               THEN LET term == self.prev_word[1] \o <<Underscore>> \o word
                    IN MapPut(self.index, term,
                              MapGet(self.index, term, {}) \cup {document_id})
               ELSE self.index,
     prev_word |-> <<word, document_id>>]

TwoWordIndex_add_term(self, word, document_id) ==
    [index |-> IF self.prev_word # <<>> /\ self.prev_word[2] = document_id
               THEN LET term == self.prev_word[1] \o <<Underscore>> \o word
                    IN MapPut(self.index, term,
                              MapGet(self.index, term, {}) \cup {document_id})
               ELSE self.index,
     prev_word |-> <<word, document_id>>]

TwoWordIndex_merge(self, other) ==
    [index |-> [t \in DOMAIN self.index \cup DOMAIN other.index |->
                   MapGet(self.index, t, {}) \cup MapGet(other.index, t, {})],
     prev_word |-> self.prev_word]

RECURSIVE TwoWordIndex_lex_into(_, _, _, _)
TwoWordIndex_lex_into(index, tokens, k, document_id) ==
    IF k > Len(tokens) THEN index
    ELSE TwoWordIndex_lex_into(TwoWordIndex_add_term(index, tokens[k], document_id),
                               tokens, k + 1, document_id)

\* add_file_to_index (pw3): both indexes of the one document
pw3_add_file_to_index(document_id, text) ==
    LET tokens == Lex(text).tokens
    IN [inverted_index |-> pw3_lex_into(pw3_new, tokens, 1, document_id),
        two_word_index |-> TwoWordIndex_lex_into(TwoWordIndex_new, tokens, 1, document_id)]

-----------------------------------------------------------------------------
(* TF-IDF index (pw8), build part: documents maps a document to its total  *)
(* term count, index maps a term to TermPositions (document -> count).     *)

pw8_TermPositions_add_position_with_count(self, document_id, delta) ==
    MapPut(self, document_id,
           IF document_id \in DOMAIN self THEN self[document_id] + delta ELSE delta)

RECURSIVE pw8_TermPositions_merge_drain(_, _, _)
pw8_TermPositions_merge_drain(self, other, left) ==
    IF left = {} THEN self
    ELSE LET d == CHOOSE x \in left : TRUE
         IN pw8_TermPositions_merge_drain(
                pw8_TermPositions_add_position_with_count(self, d, other[d]),
                other, left \ {d})

pw8_TermPositions_merge(self, other) ==
    pw8_TermPositions_merge_drain(self, other, DOMAIN other)

pw8_new == [documents |-> EmptyMap, index |-> EmptyMap]

pw8_add_term(self, term, document_id) ==
    [documents |-> MapPut(self.documents, document_id,
                          IF document_id \in DOMAIN self.documents
                          THEN self.documents[document_id] + 1 ELSE 1),
     index |-> MapPut(self.index, term,
                      pw8_TermPositions_add_position_with_count(
                          MapGet(self.index, term, EmptyMap), document_id, 1))]

\* mutant of pw8_merge_document: the other partial's count overwrites
pw8_merge_document_overwrite(documents, document_id, other_count) ==
    MapPut(documents, document_id, other_count)

\* the entry update of merge's first loop: and_modify(+=).or_insert
pw8_merge_document(documents, document_id, other_count) ==
    MapPut(documents, document_id,
           IF document_id \in DOMAIN documents
           THEN documents[document_id] + other_count ELSE other_count)

RECURSIVE pw8_merge_documents(_, _, _)
pw8_merge_documents(documents, other, left) ==
    IF left = {} THEN documents
    ELSE LET d == CHOOSE x \in left : TRUE
         IN pw8_merge_documents(pw8_merge_document(documents, d, other[d]),
                                other, left \ {d})

RECURSIVE pw8_merge_index(_, _, _)
pw8_merge_index(index, other, left) ==
    IF left = {} THEN index
    ELSE LET term == CHOOSE t \in left : TRUE
         IN pw8_merge_index(
                MapPut(index, term,
                       pw8_TermPositions_merge(MapGet(index, term, EmptyMap), other[term])),
                other, left \ {term})

pw8_merge(self, other) ==
    [documents |-> pw8_merge_documents(self.documents, other.documents,
                                       DOMAIN other.documents),
     index |-> pw8_merge_index(self.index, other.index, DOMAIN other.index)]

RECURSIVE pw8_add_terms(_, _, _, _)
\* add_term for every token in order
pw8_add_terms(index, tokens, k, document_id) ==
    IF k > Len(tokens) THEN index
    ELSE pw8_add_terms(pw8_add_term(index, tokens[k], document_id),
                      tokens, k + 1, document_id)

\* the index of one document, built by add_term from the document's tokens
pw8_document_index(document_id, text) ==
    pw8_add_terms(pw8_new, Lex(text).tokens, 1, document_id)

-----------------------------------------------------------------------------
(* Document texts of the model: words over {a, b} separated by a blank.    *)

Words == {<<97>>, <<98>>}

\* the most words a document of the model holds
MaxWords == 2

RECURSIVE Render(_)
\* the text "w1 w2 ... wn"
Render(ws) ==
    IF ws = <<>> THEN <<>>
    ELSE IF Len(ws) = 1 THEN ws[1]
    ELSE ws[1] \o <<32>> \o Render(Tail(ws))

Texts == {Render(ws) : ws \in SeqsUpTo(Words, MaxWords)}

-----------------------------------------------------------------------------
(* Idle values of the variable groups a specification does not use.        *)

m_idle == m_init = <<>> /\ m_parts = <<>>

b_idle ==
    /\ b_corpus = <<>> /\ b_fail = {} /\ b_worker = <<>> /\ b_chan = <<>>
    /\ b_taken = 0 /\ b_accs = <<>> /\ b_pc = "idle" /\ b_final = <<>>

q_idle ==
    /\ q_corpus = <<>> /\ q_index = <<>> /\ q_pos = <<>>
    /\ q_two = <<>> /\ q_ast = <<>> /\ q_kind = "idle" /\ q_result = <<>>

p_idle == p_index = <<>> /\ p_bytes = <<>> /\ p_cut = 0 /\ p_read = <<>>

v_idle == v_n = <<>> /\ v_bytes = <<>> /\ v_tail = <<>> /\ v_dec = <<>>

x_idle ==
    /\ x_text = <<>> /\ x_tokens = <<>> /\ x_operands = 0
    /\ x_result = <<>> /\ x_index = <<>> /\ x_answer = <<>>

t_idle ==
    /\ t_index = <<>> /\ t_k = 0 /\ t_vectors = <<>> /\ t_leaders = {}
    /\ t_followers = <<>> /\ t_result = <<>>

d_idle ==
    /\ d_files = <<>> /\ d_results = <<>> /\ d_chan = <<>>
    /\ d_taken = 0 /\ d_acc = <<>> /\ d_pc = "idle"

s_idle ==
    /\ s_index = <<>> /\ s_part = <<>> /\ s_added = {} /\ s_part_added = {}
    /\ s_calls = 0 /\ s_merges = 0

g_idle == g_a = <<>> /\ g_b = <<>> /\ g_c = <<>> /\ g_out = <<>>

w_idle == w_index = <<>> /\ w_calls = <<>>

u_idle == u_index = <<>> /\ u_ops = 0 /\ u_last = <<>>

n_idle == s_idle /\ g_idle /\ w_idle /\ u_idle

a_idle == m_idle /\ b_idle /\ q_idle /\ p_idle /\ v_idle

e_idle == x_idle /\ t_idle /\ d_idle /\ n_idle

-----------------------------------------------------------------------------
(* The merge laws.  A partial result is what one worker hands over: the    *)
(* index of one document, here in the three variants side by side.  Any    *)
(* two remaining results are merged, in either order, until one is left.   *)

MergeDocs == 0 .. 1

Partial(document_id, text) ==
    [dp |-> pw6_add_file_to_index(document_id, text),
     pos |-> pw3_add_file_to_index(document_id, text).inverted_index,
     tf |-> pw8_document_index(document_id, text)]

\* the reduce closure |mut a, b| { a.0.merge(b.0); ...; a }
Partial_merge(a, b) ==
    [dp |-> pw6_merge(a.dp, b.dp),
     pos |-> pw3_merge(a.pos, b.pos),
     tf |-> pw8_merge(a.tf, b.tf)]

Partials == {Partial(d, t) : d \in MergeDocs, t \in Texts}

RemoveAt(s, j) == [k \in 1 .. Len(s) - 1 |-> IF k < j THEN s[k] ELSE s[k + 1]]

MergeInit ==
    /\ m_init \in Partials \X Partials \X Partials
    /\ m_parts = m_init
    /\ b_idle /\ q_idle /\ p_idle /\ v_idle /\ e_idle

MergeStep ==
    \E i, j \in 1 .. Len(m_parts) :
        /\ i # j
        /\ m_parts' = RemoveAt([m_parts EXCEPT ![i] = Partial_merge(m_parts[i], m_parts[j])], j)
        /\ UNCHANGED <<m_init, b_vars, q_vars, p_vars, v_vars, e_vars>>

MergeNext == MergeStep

SpecMerge == MergeInit /\ [][MergeNext]_vars

RECURSIVE FoldMerge(_, _)
\* ((s[1] merge s[2]) merge ...) merge s[n]
FoldMerge(s, n) == IF n = 1 THEN s[1] ELSE Partial_merge(FoldMerge(s, n - 1), s[n])

InitTerms(variant) == UNION {DOMAIN m_init[k][variant].index : k \in 1 .. Len(m_init)}

\* C1: every merge order and grouping of the partial indexes gives the same
\* final index, which holds per term the union of the document sets
\* (doc-posting), per term and document the union of the position sets
\* (positional), and the sums of the per-document totals and of the
\* per-term per-document counts (tf-idf).
C1_MergeOrderIndependent ==
    Len(m_parts) = 1 =>
        LET final == m_parts[1]
            K == 1 .. Len(m_init)
        IN /\ final = FoldMerge(m_init, Len(m_init))
           /\ DOMAIN final.dp.index = InitTerms("dp")
           /\ \A t \in InitTerms("dp") :
                 final.dp.index[t] = UNION {pw6_term_positions(m_init[k].dp, t) : k \in K}
           /\ final.dp.documents = UNION {m_init[k].dp.documents : k \in K}
           /\ DOMAIN final.pos.index = InitTerms("pos")
           /\ \A t \in InitTerms("pos") :
                 LET tp(k) == pw3_get_term_positions(m_init[k].pos, t)
                 IN /\ DOMAIN final.pos.index[t] = UNION {DOMAIN tp(k) : k \in K}
                    /\ \A d \in DOMAIN final.pos.index[t] :
                          final.pos.index[t][d] = UNION {MapGet(tp(k), d, {}) : k \in K}
           /\ DOMAIN final.tf.documents = UNION {DOMAIN m_init[k].tf.documents : k \in K}
           /\ \A d \in DOMAIN final.tf.documents :
                 final.tf.documents[d] =
                     SumOver([k \in K |-> MapGet(m_init[k].tf.documents, d, 0)], K)
           /\ DOMAIN final.tf.index = InitTerms("tf")
           /\ \A t \in InitTerms("tf") : \A d \in MergeDocs :
                 MapGet(final.tf.index[t], d, 0) =
                     SumOver([k \in K |-> MapGet(MapGet(m_init[k].tf.index, t, EmptyMap), d, 0)], K)

\* C1 witness: three partials of which two hold the same document and term
\* (with a common position) were merged into one
C1_Witness ==
    /\ Len(m_parts) = 1
    /\ \E i, j \in 1 .. Len(m_init) :
          /\ i # j
          /\ m_init[i] # m_init[j]
          /\ \E t \in DOMAIN m_init[i].pos.index \cap DOMAIN m_init[j].pos.index :
                \E d \in DOMAIN m_init[i].pos.index[t] \cap DOMAIN m_init[j].pos.index[t] :
                    m_init[i].pos.index[t][d] \cap m_init[j].pos.index[t][d] # {}
    /\ \E d \in DOMAIN m_parts[1].tf.documents : m_parts[1].tf.documents[d] >= 3

-----------------------------------------------------------------------------
(* The parallel builder (main of pw6 / pw7 / pw8).  Every registered       *)
(* document is a job of the thread pool; a job runs add_file_to_index and  *)
(* sends the result on the channel, or panics in unwrap() when the         *)
(* per-document step returned Err and sends nothing.  The main thread      *)
(* keeps its own Sender, so the Receiver never sees the channel closed.    *)
(* The reducer takes document_count items from the channel; par_bridge     *)
(* hands each item to one of the running folds, and the folds are joined   *)
(* pairwise once the iterator is exhausted.  A job is one step of the      *)
(* model (lexing touches nothing shared), so the jobs may complete in any  *)
(* order, whatever the size of the pool.                                   *)

\* the most documents the registry of the model holds
NumDocs == 3

\* the most folds par_bridge runs side by side
MaxSplits == 2

\* the text of document d: "a a", "b a", "a b", "b b", ...
DocText(d) ==
    Render(<<IF d % 2 = 0 THEN <<97>> ELSE <<98>>,
             IF (d \div 2) % 2 = 0 THEN <<97>> ELSE <<98>>>>)

\* InfContext::document_ids of a registry of n documents
document_ids(n) == 0 .. n - 1

\* what add_file_to_index returns for a document: Some((index, stats));
\* docs lists the documents a result was built from
add_file_to_index(document_id, text) ==
    [ix |-> Partial(document_id, text),
     stats |-> Lex(text).stats,
     docs |-> <<document_id>>]

\* the identity of the reduction: (InvertedIndex::new(), LexerStats::default())
reduce_identity ==
    [ix |-> [dp |-> pw6_new, pos |-> pw3_new, tf |-> pw8_new],
     stats |-> LexerStatsDefault,
     docs |-> <<>>]

\* the reduction's operator
reduce_op(a, b) ==
    [ix |-> Partial_merge(a.ix, b.ix),
     stats |-> LexerStats_merge(a.stats, b.stats),
     docs |-> a.docs \o b.docs]

\* mutant of take_count: the reducer stops one item early
take_count_short(document_count) == document_count - 1

\* rx.into_iter().take(document_count)
take_count(document_count) == document_count

\* let document_count = document_ids.len()
document_count == Cardinality(DOMAIN b_corpus)

BuildInit ==
    /\ \E n \in 0 .. NumDocs : b_corpus = [d \in document_ids(n) |-> DocText(d)]
    /\ b_fail \in SUBSET DOMAIN b_corpus
    /\ b_worker = [d \in DOMAIN b_corpus |-> "queued"]
    /\ b_chan = <<>>
    /\ b_taken = 0
    /\ b_accs = <<>>
    /\ b_pc = "reduce"
    /\ b_final = <<>>
    /\ m_idle /\ q_idle /\ p_idle /\ v_idle /\ e_idle

\* a job whose add_file_to_index returns Ok: the result is sent
WorkerSend(d) ==
    /\ b_worker[d] = "queued"
    /\ d \notin b_fail
    /\ b_chan' = Append(b_chan, add_file_to_index(d, b_corpus[d]))
    /\ b_worker' = [b_worker EXCEPT ![d] = "done"]
    /\ UNCHANGED <<b_corpus, b_fail, b_taken, b_accs, b_pc, b_final>>
    /\ UNCHANGED <<m_vars, q_vars, p_vars, v_vars, e_vars>>

\* a job whose add_file_to_index returns Err: unwrap() panics, the job's
\* Sender is dropped, nothing is sent
WorkerPanic(d) ==
    /\ b_worker[d] = "queued"
    /\ d \in b_fail
    /\ b_worker' = [b_worker EXCEPT ![d] = "panicked"]
    /\ UNCHANGED <<b_corpus, b_fail, b_chan, b_taken, b_accs, b_pc, b_final>>
    /\ UNCHANGED <<m_vars, q_vars, p_vars, v_vars, e_vars>>

\* the reducer takes the next item and folds it into a running fold
ReduceItem ==
    /\ b_pc = "reduce"
    /\ b_taken < take_count(document_count)
    /\ b_chan # <<>>
    /\ \E i \in 1 .. Len(b_accs) :
          b_accs' = [b_accs EXCEPT ![i] = reduce_op(b_accs[i], Head(b_chan))]
    /\ b_chan' = Tail(b_chan)
    /\ b_taken' = b_taken + 1
    /\ UNCHANGED <<b_corpus, b_fail, b_worker, b_pc, b_final>>
    /\ UNCHANGED <<m_vars, q_vars, p_vars, v_vars, e_vars>>

\* the reducer takes the next item and starts a fold with it
ReduceSplit ==
    /\ b_pc = "reduce"
    /\ b_taken < take_count(document_count)
    /\ b_chan # <<>>
    /\ Len(b_accs) < MaxSplits
    /\ b_accs' = Append(b_accs, reduce_op(reduce_identity, Head(b_chan)))
    /\ b_chan' = Tail(b_chan)
    /\ b_taken' = b_taken + 1
    /\ UNCHANGED <<b_corpus, b_fail, b_worker, b_pc, b_final>>
    /\ UNCHANGED <<m_vars, q_vars, p_vars, v_vars, e_vars>>

\* the iterator is exhausted: two folds are joined
ReduceJoin ==
    /\ b_pc = "reduce"
    /\ b_taken = take_count(document_count)
    /\ \E i, j \in 1 .. Len(b_accs) :
          /\ i # j
          /\ b_accs' = RemoveAt([b_accs EXCEPT ![i] = reduce_op(b_accs[i], b_accs[j])], j)
    /\ UNCHANGED <<b_corpus, b_fail, b_worker, b_chan, b_taken, b_pc, b_final>>
    /\ UNCHANGED <<m_vars, q_vars, p_vars, v_vars, e_vars>>

\* reduce returns: main goes on to persist the index and to answer queries
Deliver ==
    /\ b_pc = "reduce"
    /\ b_taken = take_count(document_count)
    /\ Len(b_accs) <= 1
    /\ b_final' = IF b_accs = <<>> THEN reduce_identity ELSE b_accs[1]
    /\ b_pc' = "query"
    /\ UNCHANGED <<b_corpus, b_fail, b_worker, b_chan, b_taken, b_accs>>
    /\ UNCHANGED <<m_vars, q_vars, p_vars, v_vars, e_vars>>

BuildNext ==
    \/ \E d \in DOMAIN b_corpus : WorkerSend(d)
    \/ \E d \in DOMAIN b_corpus : WorkerPanic(d)
    \/ ReduceItem
    \/ ReduceSplit
    \/ ReduceJoin
    \/ Deliver

SpecBuild == BuildInit /\ [][BuildNext]_vars

RECURSIVE FoldDocs(_, _)
\* the partial results of documents 0 .. n - 1 merged in this order
FoldDocs(corpus, n) ==
    IF n = 0 THEN reduce_identity
    ELSE reduce_op(FoldDocs(corpus, n - 1), add_file_to_index(n - 1, corpus[n - 1]))

\* C2: main goes on to persisting and querying only when it has received
\* the one result of every registered document, and the final index is the
\* merge of exactly these results: each document is in it once.
C2_DeliveredIsMergeOfAll ==
    b_pc = "query" =>
        /\ b_taken = document_count
        /\ b_chan = <<>>
        /\ \A d \in DOMAIN b_corpus : b_worker[d] = "done"
        /\ Len(b_final.docs) = document_count
        /\ \A d \in DOMAIN b_corpus : \E k \in 1 .. Len(b_final.docs) : b_final.docs[k] = d
        /\ b_final.ix = FoldDocs(b_corpus, document_count).ix
        /\ b_final.stats = FoldDocs(b_corpus, document_count).stats

\* C2 witness: an index of all NumDocs documents was delivered whose results
\* were not merged in the order of the document ids
C2_Witness ==
    /\ b_pc = "query"
    /\ document_count >= 3
    /\ b_final.docs[1] # 0
    /\ b_final.docs[Len(b_final.docs)] # document_count - 1

\* C3: when a worker's per-document step fails, the document is skipped and
\* the build still terminates: once no step of the workers and the reducer
\* is left to take, the reducer has delivered the index.
C3_BuildTerminatesAfterFailure ==
    (b_fail # {} /\ ~ ENABLED BuildNext) => b_pc = "query"

-----------------------------------------------------------------------------
(* LogicNode (query_lang.rs) and the results of the fallible operations.   *)

NodeFalse == [kind |-> "False"]
NodeTerm(term) == [kind |-> "Term", term |-> term]
NodeAnd(lhs, rhs) == [kind |-> "And", lhs |-> lhs, rhs |-> rhs]
NodeOr(lhs, rhs) == [kind |-> "Or", lhs |-> lhs, rhs |-> rhs]
NodeNot(operand) == [kind |-> "Not", operand |-> operand]
NodeNear(lhs, rhs, left, right) ==
    [kind |-> "Near", lhs |-> lhs, rhs |-> rhs, left |-> left, right |-> right]
NodeSubtract(lhs, rhs) == [kind |-> "Subtract", lhs |-> lhs, rhs |-> rhs]

\* Parser::construct_operator for Operator::Next: what `lhs > rhs` and two
\* neighbouring words of a phrase literal are turned into
construct_Next(lhs, rhs) == NodeNear(lhs, rhs, 0, 1)

Ok(val) == [ok |-> TRUE, val |-> val]
Err(msg) == [ok |-> FALSE, err |-> msg]

-----------------------------------------------------------------------------
(* Doc-posting index (pw6): query                                          *)

RECURSIVE pw6_query_rec(_, _)
pw6_query_rec(self, ast) ==
    CASE ast.kind = "False" -> Ok({})
      [] ast.kind = "Term" -> Ok(pw6_term_positions(self, ast.term))
      [] ast.kind = "And" ->
            LET l == pw6_query_rec(self, ast.lhs)
            IN IF ~ l.ok THEN l
               ELSE LET r == pw6_query_rec(self, ast.rhs)
                    IN IF ~ r.ok THEN r ELSE Ok(l.val \cap r.val)
      [] ast.kind = "Or" ->
            LET l == pw6_query_rec(self, ast.lhs)
            IN IF ~ l.ok THEN l
               ELSE LET r == pw6_query_rec(self, ast.rhs)
                    IN IF ~ r.ok THEN r ELSE Ok(l.val \cup r.val)
      [] ast.kind = "Not" ->
            LET x == pw6_query_rec(self, ast.operand)
            IN IF ~ x.ok THEN x ELSE Ok(self.documents \ x.val)
      [] ast.kind = "Near" -> Err("Operation not supported.")
      [] ast.kind = "Subtract" ->
            LET l == pw6_query_rec(self, ast.lhs)
            IN IF ~ l.ok THEN l
               ELSE LET r == pw6_query_rec(self, ast.rhs)
                    IN IF ~ r.ok THEN r ELSE Ok(l.val \ r.val)

pw6_query(self, ast) == pw6_query_rec(self, ast)

-----------------------------------------------------------------------------
(* Positional algebra on TermPositions (pw3 position.rs) and the query of  *)
(* the positional index.                                                   *)

\* usize::saturating_sub
saturating_sub(a, b) == IF a >= b THEN a - b ELSE 0

\* mutant of TermPositions_positions_around: the range starts at the position
\* itself, whatever left is
TermPositions_positions_around_no_left(positions, position, left, right) ==
    {q \in positions : position <= q /\ q <= position + right}

\* BTreeSet::range((Included(min), Included(max))); saturating_add does not
\* saturate on the positions of the model
TermPositions_positions_around(positions, position, left, right) ==
    {q \in positions : saturating_sub(position, left) <= q /\ q <= position + right}

TermPositions_positions_around_and_self(positions, position, left, right) ==
    LET result == TermPositions_positions_around(positions, position, left, right)
    IN IF result # {} THEN result \cup {position} ELSE result

TermPositions_close_union(self, other, left, right) ==
    LET both == DOMAIN self \cap DOMAIN other
        found == [d \in both |->
                    UNION {TermPositions_positions_around_and_self(other[d], p, left, right) :
                           p \in self[d]}]
    IN [d \in {x \in both : found[x] # {}} |-> found[d]]

TermPositions_document_sub(self, rhs) ==
    [d \in DOMAIN self \ DOMAIN rhs |-> self[d]]

TermPositions_bitor(self, rhs) ==
    [d \in DOMAIN self \cup DOMAIN rhs |-> MapGet(self, d, {}) \cup MapGet(rhs, d, {})]

\* mutant of TermPositions_bitand: every document of the left operand is kept
TermPositions_bitand_keep_lhs(self, rhs) ==
    [d \in DOMAIN self |-> self[d] \cap MapGet(rhs, d, {})]

\* mutant of TermPositions_bitand: documents with an empty intersection are dropped
TermPositions_bitand_drop_empty(self, rhs) ==
    [d \in {x \in DOMAIN self \cap DOMAIN rhs : self[x] \cap rhs[x] # {}} |->
        self[d] \cap rhs[d]]

TermPositions_bitand(self, rhs) ==
    [d \in DOMAIN self \cap DOMAIN rhs |-> self[d] \cap rhs[d]]

\* mutant of TermPositions_sub: documents left with no position are kept
TermPositions_sub_keep_empty(self, rhs) ==
    [d \in DOMAIN self |-> IF d \in DOMAIN rhs THEN self[d] \ rhs[d] ELSE self[d]]

TermPositions_sub(self, rhs) ==
    LET diff == [d \in DOMAIN self |->
                    IF d \in DOMAIN rhs THEN self[d] \ rhs[d] ELSE self[d]]
    IN [d \in {x \in DOMAIN self : diff[x] # {}} |-> diff[d]]

RECURSIVE pw3_query_rec(_, _)
pw3_query_rec(self, ast) ==
    CASE ast.kind = "False" -> TermPositions_new
      [] ast.kind = "Term" -> pw3_get_term_positions(self, ast.term)
      [] ast.kind = "And" ->
            TermPositions_bitand(pw3_query_rec(self, ast.lhs), pw3_query_rec(self, ast.rhs))
      [] ast.kind = "Or" ->
            TermPositions_bitor(pw3_query_rec(self, ast.lhs), pw3_query_rec(self, ast.rhs))
      [] ast.kind = "Not" ->
            TermPositions_document_sub(self.documents, pw3_query_rec(self, ast.operand))
      [] ast.kind = "Near" ->
            TermPositions_close_union(pw3_query_rec(self, ast.lhs),
                                      pw3_query_rec(self, ast.rhs), ast.left, ast.right)
      [] ast.kind = "Subtract" ->
            TermPositions_sub(pw3_query_rec(self, ast.lhs), pw3_query_rec(self, ast.rhs))

pw3_query(self, ast) == Ok(TermPositions_documents(pw3_query_rec(self, ast)))

-----------------------------------------------------------------------------
(* Two-word index (pw3): query                                             *)

RECURSIVE TwoWordIndex_query(_, _)
TwoWordIndex_query(self, ast) ==
    CASE ast.kind = "False" -> Ok({})
      [] ast.kind = "Term" -> Err("Only 2 word queries are supported.")
      [] ast.kind = "And" ->
            LET l == TwoWordIndex_query(self, ast.lhs)
            IN IF ~ l.ok THEN l
               ELSE LET r == TwoWordIndex_query(self, ast.rhs)
                    IN IF ~ r.ok THEN r ELSE Ok(l.val \cap r.val)
      [] ast.kind = "Or" ->
            LET l == TwoWordIndex_query(self, ast.lhs)
            IN IF ~ l.ok THEN l
               ELSE LET r == TwoWordIndex_query(self, ast.rhs)
                    IN IF ~ r.ok THEN r ELSE Ok(l.val \cup r.val)
      [] ast.kind = "Not" ->
            LET x == TwoWordIndex_query(self, ast.operand)
            IN IF ~ x.ok THEN x ELSE Ok(TwoWordIndex_documents(self) \ x.val)
      [] ast.kind = "Subtract" ->
            LET l == TwoWordIndex_query(self, ast.lhs)
            IN IF ~ l.ok THEN l
               ELSE LET r == TwoWordIndex_query(self, ast.rhs)
                    IN IF ~ r.ok THEN r ELSE Ok(l.val \ r.val)
      [] ast.kind = "Near" ->
            IF ast.lhs.kind = "Term" /\ ast.rhs.kind = "Term"
               /\ ast.left = 0 /\ ast.right = 1
            THEN Ok(TwoWordIndex_get_term_documents(
                        self, ast.lhs.term \o <<Underscore>> \o ast.rhs.term))
            ELSE Err("Only 2 word queries are supported.")

-----------------------------------------------------------------------------
(* Query stage: three registered documents are lexed into the doc-posting, *)
(* the positional and the two-word index, then queries are answered.       *)

QueryDocs == 0 .. 2

AbsentWord == <<99>>

QueryTerms == Words \cup {AbsentWord}

TermNodes == {NodeTerm(t) : t \in QueryTerms}

WordNodes == {NodeTerm(t) : t \in Words}

Leaves == {NodeFalse} \cup TermNodes

\* the parsed queries put to the indexes
QueryAsts ==
    Leaves
    \cup {NodeNot(x) : x \in Leaves}
    \cup {NodeAnd(x, y) : x, y \in TermNodes}
    \cup {NodeOr(x, y) : x, y \in TermNodes}
    \cup {NodeSubtract(x, y) : x, y \in TermNodes}
    \cup {construct_Next(x, y) : x, y \in TermNodes}
    \cup {NodeNear(x, y, 1, 1) : x, y \in WordNodes}
    \cup {NodeAnd(x, NodeNot(y)) : x, y \in WordNodes}
    \cup {NodeNot(NodeOr(x, y)) : x, y \in WordNodes}
    \cup {NodeOr(construct_Next(x, y), x) : x, y \in WordNodes}
    \cup {NodeAnd(x, construct_Next(x, y)) : x, y \in WordNodes}
    \cup {NodeNot(construct_Next(x, y)) : x, y \in WordNodes}

RECURSIVE build_pw6(_, _)
\* the merge of the per-document doc-posting indexes of documents 0 .. n - 1
build_pw6(corpus, n) ==
    IF n = 0 THEN pw6_new
    ELSE pw6_merge(build_pw6(corpus, n - 1), pw6_add_file_to_index(n - 1, corpus[n - 1]))

RECURSIVE build_pw3(_, _)
\* the merge of the per-document positional and two-word indexes
build_pw3(corpus, n) ==
    IF n = 0 THEN [inverted_index |-> pw3_new, two_word_index |-> TwoWordIndex_new]
    ELSE LET a == build_pw3(corpus, n - 1)
             b == pw3_add_file_to_index(n - 1, corpus[n - 1])
         IN [inverted_index |-> pw3_merge(a.inverted_index, b.inverted_index),
             two_word_index |-> TwoWordIndex_merge(a.two_word_index, b.two_word_index)]

QueryInit ==
    /\ q_corpus \in [QueryDocs -> Texts]
    /\ q_index = build_pw6(q_corpus, Cardinality(QueryDocs))
    /\ q_pos = build_pw3(q_corpus, Cardinality(QueryDocs)).inverted_index
    /\ q_two = build_pw3(q_corpus, Cardinality(QueryDocs)).two_word_index
    /\ q_ast = <<>>
    /\ q_kind = "built"
    /\ q_result = <<>>
    /\ m_idle /\ b_idle /\ p_idle /\ v_idle /\ e_idle

\* pw6 main: query(&index, ...) on the doc-posting index
QueryDocPosting(ast) ==
    /\ q_kind = "built"
    /\ q_kind' = "doc"
    /\ q_ast' = ast
    /\ q_result' = pw6_query(q_index, ast)
    /\ UNCHANGED <<q_corpus, q_index, q_pos, q_two, m_vars, b_vars, p_vars, v_vars, e_vars>>

\* pw3 main: the query is put to the positional index
QueryPositional(ast) ==
    /\ q_kind = "built"
    /\ q_kind' = "pos"
    /\ q_ast' = ast
    /\ q_result' = pw3_query(q_pos, ast)
    /\ UNCHANGED <<q_corpus, q_index, q_pos, q_two, m_vars, b_vars, p_vars, v_vars, e_vars>>

\* pw3 main after 's': the query is put to the two-word index
QueryTwoWord(ast) ==
    /\ q_kind = "built"
    /\ q_kind' = "two"
    /\ q_ast' = ast
    /\ q_result' = TwoWordIndex_query(q_two, ast)
    /\ UNCHANGED <<q_corpus, q_index, q_pos, q_two, m_vars, b_vars, p_vars, v_vars, e_vars>>

\* the answer is printed, the buffer cleared and the next line awaited
QueryPrompt ==
    /\ q_kind \in {"doc", "pos", "two"}
    /\ q_kind' = "built"
    /\ q_ast' = <<>>
    /\ q_result' = <<>>
    /\ UNCHANGED <<q_corpus, q_index, q_pos, q_two, m_vars, b_vars, p_vars, v_vars, e_vars>>

QueryNext ==
    \/ \E ast \in QueryAsts : QueryDocPosting(ast)
    \/ \E ast \in QueryAsts : QueryPositional(ast)
    \/ \E ast \in QueryAsts : QueryTwoWord(ast)
    \/ QueryPrompt

SpecQuery == QueryInit /\ [][QueryNext]_vars

\* the tokens of a registered document
DocTokens(d) == Lex(q_corpus[d]).tokens

DocsWith(term) == {d \in QueryDocs : \E k \in 1 .. Len(DocTokens(d)) : DocTokens(d)[k] = term}

\* every document that contributed at least one term
Universe == {d \in QueryDocs : DocTokens(d) # <<>>}

RECURSIVE HasNear(_)
HasNear(ast) ==
    CASE ast.kind \in {"False", "Term"} -> FALSE
      [] ast.kind = "Not" -> HasNear(ast.operand)
      [] ast.kind = "Near" -> TRUE
      [] OTHER -> HasNear(ast.lhs) \/ HasNear(ast.rhs)

RECURSIVE SetEval(_)
SetEval(ast) ==
    CASE ast.kind = "False" -> {}
      [] ast.kind = "Term" -> DocsWith(ast.term)
      [] ast.kind = "And" -> SetEval(ast.lhs) \cap SetEval(ast.rhs)
      [] ast.kind = "Or" -> SetEval(ast.lhs) \cup SetEval(ast.rhs)
      [] ast.kind = "Not" -> Universe \ SetEval(ast.operand)
      [] ast.kind = "Subtract" -> SetEval(ast.lhs) \ SetEval(ast.rhs)

\* C4: on the doc-posting index a query without a proximity node evaluates
\* to the set-theoretic combination of the term document sets (And is
\* intersection, Or union, Subtract difference, Not the complement within
\* the documents ever inserted, False the empty set), and a query with a
\* Near node anywhere fails with "Operation not supported."
C4_DocPostingQuerySemantics ==
    q_kind = "doc" =>
        q_result = IF HasNear(q_ast) THEN Err("Operation not supported.")
                   ELSE Ok(SetEval(q_ast))

C4_Witness ==
    /\ q_kind = "doc"
    /\ q_ast.kind = "And" /\ q_ast.rhs.kind = "Not"
    /\ q_result.ok /\ q_result.val # {}
    /\ q_result.val # Universe
    /\ \E d \in QueryDocs : d \notin Universe

IsAndNot(ast) ==
    /\ ast.kind = "And" /\ ast.lhs.kind = "Term"
    /\ ast.rhs.kind = "Not" /\ ast.rhs.operand.kind = "Term"

\* C5: on the positional index `a & !b` returns the documents that contain
\* a and do not contain b; over d1 = {a}, d2 = {a, b}, d3 = {b} it returns
\* exactly {d1}
C5_PositionalAndNot ==
    (q_kind = "pos" /\ IsAndNot(q_ast)) =>
        q_result = Ok(DocsWith(q_ast.lhs.term) \ DocsWith(q_ast.rhs.operand.term))

C5_Witness ==
    /\ q_kind = "pos"
    /\ q_ast = NodeAnd(NodeTerm(<<97>>), NodeNot(NodeTerm(<<98>>)))
    /\ DocsWith(<<97>>) = {0, 1} /\ DocsWith(<<98>>) = {1, 2}
    /\ q_result = Ok({0})

IsNextOfTerms(ast) ==
    /\ ast.kind = "Near" /\ ast.left = 0 /\ ast.right = 1
    /\ ast.lhs.kind = "Term" /\ ast.rhs.kind = "Term"

\* the documents in which some occurrence of a is immediately followed by b
DocsWithAdjacent(a, b) ==
    {d \in QueryDocs : \E k \in 1 .. Len(DocTokens(d)) - 1 :
        DocTokens(d)[k] = a /\ DocTokens(d)[k + 1] = b}

\* C6: on the positional index `a > b` returns exactly the documents in
\* which a is immediately followed by b, for all terms a and b
C6_NextReturnsAdjacentDocs ==
    (q_kind = "pos" /\ IsNextOfTerms(q_ast)) =>
        q_result = Ok(DocsWithAdjacent(q_ast.lhs.term, q_ast.rhs.term))

\* C7: the two-word index answers the phrase of a and b with the same
\* documents as the positional index, for all a and b, a = b included
C7_TwoWordEqualsPositional ==
    (q_kind = "two" /\ IsNextOfTerms(q_ast)) =>
        q_result = pw3_query(q_pos, q_ast)

\* the two answers of C6 and C7 for distinct words
NextOfDistinctWords ==
    (q_kind \in {"pos", "two"} /\ IsNextOfTerms(q_ast) /\ q_ast.lhs.term # q_ast.rhs.term) =>
        q_result = Ok(DocsWithAdjacent(q_ast.lhs.term, q_ast.rhs.term))

-----------------------------------------------------------------------------
(* Variable-byte encoding (pw7 encoding.rs).  A usize is held as three     *)
(* limbs <<high, middle, low>> of 22, 21 and 21 bits, so that the whole    *)
(* 64-bit range is computed with small integers.                           *)

CONT_MASK == 128

Limb == 128 * 128 * 128

usize_zero == <<0, 0, 0>>

\* a small integer as usize
usize_from(n) == <<0, n \div Limb, n % Limb>>

\* a usize below Limb * Limb as an integer of the model
usize_small(x) == x[2] * Limb + x[3]

\* acc % 128
usize_rem128(acc) == acc[3] % 128

\* acc /= 128
usize_div128(acc) ==
    <<acc[1] \div 128,
      (acc[1] % 128) * 16384 + acc[2] \div 128,
      (acc[2] % 128) * 16384 + acc[3] \div 128>>

\* (result << 7) | low7, the bits shifted out of the 64 are lost
usize_shl7_or(result, low7) ==
    <<(result[1] * 128 + result[2] \div 16384) % (2 * Limb),
      (result[2] % 16384) * 128 + result[3] \div 16384,
      (result[3] % 16384) * 128 + low7>>

Reverse(s) == [i \in 1 .. Len(s) |-> s[Len(s) + 1 - i]]

RECURSIVE vb_encode_loop(_, _)
\* while acc != 0 { result.push((acc % 128) as u8); acc /= 128; }
vb_encode_loop(acc, result) ==
    IF acc = usize_zero THEN result
    ELSE vb_encode_loop(usize_div128(acc), Append(result, usize_rem128(acc)))

\* *last |= CONT_MASK
set_cont(result) ==
    IF result = <<>> THEN result
    ELSE [result EXCEPT ![Len(result)] = IF @ >= CONT_MASK THEN @ ELSE @ + CONT_MASK]

\* mutant of vb_encode: the groups are not reversed
vb_encode_lsb_first(value) ==
    IF value = usize_zero THEN <<CONT_MASK>>
    ELSE set_cont(vb_encode_loop(value, <<>>))

vb_encode(value) ==
    IF value = usize_zero THEN <<CONT_MASK>>
    ELSE set_cont(Reverse(vb_encode_loop(value, <<>>)))

RECURSIVE vb_decode_loop(_, _, _)
\* data is the byte iterator: the bytes and the place of the next one
vb_decode_loop(data, next, result) ==
    IF next > Len(data) THEN [val |-> result, next |-> next]
    ELSE LET byte == data[next]
             shifted == usize_shl7_or(result, byte % 128)
         IN IF byte >= CONT_MASK THEN [val |-> shifted, next |-> next + 1]
            ELSE vb_decode_loop(data, next + 1, shifted)

\* Ok(result) and the iterator after the call; the byte source yields no
\* io error
vb_decode(data, next) == vb_decode_loop(data, next, usize_zero)

LimbSamples == {0, 1, 127, 128, 300, 16383, 16384, Limb - 1}

TailSamples == {<<>>, <<5>>, <<129, 3>>}

VbInit ==
    /\ v_n \in LimbSamples \X LimbSamples \X LimbSamples
    /\ v_tail \in TailSamples
    /\ v_bytes = <<>>
    /\ v_dec = <<>>
    /\ m_idle /\ b_idle /\ q_idle /\ p_idle /\ e_idle

VbEncode ==
    /\ v_bytes = <<>>
    /\ v_bytes' = vb_encode(v_n)
    /\ UNCHANGED <<v_n, v_tail, v_dec, m_vars, b_vars, q_vars, p_vars, e_vars>>

\* the encoded bytes are read back from a stream that goes on after them
VbDecode ==
    /\ v_bytes # <<>>
    /\ v_dec = <<>>
    /\ v_dec' = vb_decode(v_bytes \o v_tail, 1)
    /\ UNCHANGED <<v_n, v_tail, v_bytes, m_vars, b_vars, q_vars, p_vars, e_vars>>

VbNext == VbEncode \/ VbDecode

SpecVB == VbInit /\ [][VbNext]_vars

\* the 3 base-128 digits of a 21-bit limb, 4 for the high limb
Digits3(l) == <<l \div 16384, (l \div 128) % 128, l % 128>>

Digits4(l) == <<l \div Limb>> \o Digits3(l % Limb)

RECURSIVE StripZeros(_)
StripZeros(s) == IF s # <<>> /\ Head(s) = 0 THEN StripZeros(Tail(s)) ELSE s

\* the base-128 digits of x, most significant first, without leading zeros
Base128(x) == StripZeros(Digits4(x[1]) \o Digits3(x[2]) \o Digits3(x[3]))

RECURSIVE BitLen(_)
BitLen(k) == IF k = 0 THEN 0 ELSE 1 + BitLen(k \div 2)

\* the number of significant bits of x
Bits(x) ==
    IF x[1] > 0 THEN 42 + BitLen(x[1])
    ELSE IF x[2] > 0 THEN 21 + BitLen(x[2]) ELSE BitLen(x[3])

\* C9: for n below 2^63, vb_encode(n) is the base-128 digits of n, most
\* significant first, high bit set on the last byte only, ceil(bits(n)/7)
\* bytes long (the one byte 0x80 for 0, [0x02, 0xAC] for 300), and
\* vb_decode of those bytes gives n back and consumes exactly those bytes
C9_VbEncodeDecode ==
    /\ v_bytes # <<>> =>
        /\ Len(v_bytes) = IF v_n = usize_zero THEN 1 ELSE (Bits(v_n) + 6) \div 7
        /\ \A i \in 1 .. Len(v_bytes) : (v_bytes[i] >= 128) <=> (i = Len(v_bytes))
        /\ v_n # usize_zero =>
              [i \in 1 .. Len(v_bytes) |-> v_bytes[i] % 128] = Base128(v_n)
        /\ v_n = usize_zero => v_bytes = <<128>>
        /\ v_n = usize_from(300) => v_bytes = <<2, 172>>
    /\ v_dec # <<>> =>
        /\ v_dec.val = v_n
        /\ v_dec.next = Len(v_bytes) + 1

C9_Witness ==
    /\ v_n = usize_from(300) /\ v_bytes = <<2, 172>> /\ v_tail = <<129, 3>>
    /\ v_dec # <<>> /\ v_dec.val = v_n /\ v_dec.next = 3

-----------------------------------------------------------------------------
(* Compressed persistence of the doc-posting index (pw6 term_index.rs).    *)
(* A String is its sequence of code points; as_bytes and from_utf8 are the *)
(* UTF-8 conversions.  A reading function returns its Result together with *)
(* the place of the next byte of the iterator.                             *)

NUL == 0

utf8_char(c) ==
    IF c < 128 THEN <<c>>
    ELSE IF c < 2048 THEN <<192 + c \div 64, 128 + (c % 64)>>
    ELSE IF c < 65536 THEN <<224 + c \div 4096, 128 + ((c \div 64) % 64), 128 + (c % 64)>>
    ELSE <<240 + c \div 262144, 128 + ((c \div 4096) % 64),
           128 + ((c \div 64) % 64), 128 + (c % 64)>>

RECURSIVE as_bytes(_)
as_bytes(str) == IF str = <<>> THEN <<>> ELSE utf8_char(Head(str)) \o as_bytes(Tail(str))

is_cont(byte) == byte >= 128 /\ byte < 192

RECURSIVE from_utf8_loop(_, _, _)
from_utf8_loop(buf, i, out) ==
    IF i > Len(buf) THEN Ok(out)
    ELSE LET b0 == buf[i]
             has(k) == i + k <= Len(buf) /\ \A j \in 1 .. k : is_cont(buf[i + j])
             low(j) == buf[i + j] % 64
         IN IF b0 < 128 THEN from_utf8_loop(buf, i + 1, Append(out, b0))
            ELSE IF b0 >= 194 /\ b0 < 224 /\ has(1)
                 THEN from_utf8_loop(buf, i + 2, Append(out, (b0 - 192) * 64 + low(1)))
            ELSE IF b0 >= 224 /\ b0 < 240 /\ has(2)
                    /\ (b0 - 224) * 4096 + low(1) * 64 + low(2) >= 2048
                    /\ (b0 - 224) * 4096 + low(1) * 64 + low(2) \notin 55296 .. 57343
                 THEN from_utf8_loop(buf, i + 3,
                                     Append(out, (b0 - 224) * 4096 + low(1) * 64 + low(2)))
            ELSE IF b0 >= 240 /\ b0 < 245 /\ has(3)
                    /\ (b0 - 240) * 262144 + low(1) * 4096 + low(2) * 64 + low(3)
                          \in 65536 .. 1114111
                 THEN from_utf8_loop(buf, i + 4,
                        Append(out, (b0 - 240) * 262144 + low(1) * 4096 + low(2) * 64 + low(3)))
            ELSE Err("invalid utf-8 sequence")

from_utf8(buf) == from_utf8_loop(buf, 1, <<>>)

is_ascii_digit(byte) == byte >= 48 /\ byte <= 57

RECURSIVE format_number(_)
\* format!("{}", n).as_bytes()
format_number(n) ==
    IF n < 10 THEN <<48 + n>> ELSE Append(format_number(n \div 10), 48 + (n % 10))

RECURSIVE parse_number(_, _)
\* str::parse::<usize> of a string of ASCII digits, acc the value so far
parse_number(digits, acc) ==
    IF digits = <<>> THEN acc
    ELSE parse_number(Tail(digits), acc * 10 + (Head(digits) - 48))

RECURSIVE bytes_less(_, _)
\* the order of String: the lexicographic order of the bytes
bytes_less(a, b) ==
    IF b = <<>> THEN FALSE
    ELSE IF a = <<>> THEN TRUE
    ELSE IF Head(a) # Head(b) THEN Head(a) < Head(b)
    ELSE bytes_less(Tail(a), Tail(b))

RECURSIVE sorted_terms(_)
\* self.index.keys().sorted()
sorted_terms(keys) ==
    IF keys = {} THEN <<>>
    ELSE LET least == CHOOSE t \in keys :
                        \A u \in keys \ {t} : bytes_less(as_bytes(t), as_bytes(u))
         IN <<least>> \o sorted_terms(keys \ {least})

RECURSIVE sorted_documents(_)
\* documents.iter().sorted()
sorted_documents(documents) ==
    IF documents = {} THEN <<>>
    ELSE LET least == CHOOSE d \in documents : \A e \in documents : d <= e
         IN <<least>> \o sorted_documents(documents \ {least})

RECURSIVE longest_prefix_loop(_, _, _, _)
\* k is the place of the pair of chars compared, i the byte index of the
\* anchor's char
longest_prefix_loop(anchor, term, k, i) ==
    IF k > Len(anchor) \/ k > Len(term) THEN Len(as_bytes(anchor))
    ELSE IF anchor[k] # term[k] THEN i
    ELSE longest_prefix_loop(anchor, term, k + 1, i + Len(utf8_char(anchor[k])))

longest_prefix(anchor, term) == longest_prefix_loop(anchor, term, 1, 0)

RECURSIVE write_dictionary_loop(_, _, _)
\* the dictionary bytes of terms[k ..], front coded against the term before
write_dictionary_loop(terms, k, out) ==
    IF k > Len(terms) THEN out
    ELSE LET prefix_len == IF k > 1 THEN longest_prefix(terms[k - 1], terms[k]) ELSE 0
             bytes == as_bytes(terms[k])
         IN write_dictionary_loop(terms, k + 1,
                out \o format_number(prefix_len)
                    \o SubSeq(bytes, prefix_len + 1, Len(bytes)))

\* the bytes written and the sorted terms returned
write_dictionary_compressed(self) ==
    LET terms == sorted_terms(DOMAIN self.index)
    IN [bytes |-> Append(write_dictionary_loop(terms, 1, <<>>), NUL), terms |-> terms]

\* mutant of posting_delta: the document id itself is written
posting_delta_absolute(document_id, prev_document_id) == document_id

\* let delta = document.id() - prev_document_id
posting_delta(document_id, prev_document_id) == document_id - prev_document_id

RECURSIVE write_postings(_, _, _)
write_postings(documents, k, prev_document_id) ==
    IF k > Len(documents) THEN <<>>
    ELSE vb_encode(usize_from(posting_delta(documents[k], prev_document_id)))
            \o write_postings(documents, k + 1, documents[k])

RECURSIVE save_postings(_, _, _)
save_postings(self, terms, k) ==
    IF k > Len(terms) THEN <<>>
    ELSE LET documents == self.index[terms[k]]
         IN vb_encode(usize_from(Cardinality(documents)))
               \o write_postings(sorted_documents(documents), 1, 0)
               \o save_postings(self, terms, k + 1)

\* the bytes given to the writer
save_compressed(self) ==
    LET dictionary == write_dictionary_compressed(self)
    IN dictionary.bytes \o save_postings(self, dictionary.terms, 1)

ReadOk(val, next) == [ok |-> TRUE, val |-> val, next |-> next]

ReadErr(msg) == [ok |-> FALSE, err |-> msg]

RECURSIVE take_digits(_, _)
\* the place of the first byte from next on that is not an ASCII digit
take_digits(data, next) ==
    IF next <= Len(data) /\ is_ascii_digit(data[next]) THEN take_digits(data, next + 1)
    ELSE next

read_number(data, next) ==
    LET end == take_digits(data, next)
    IN IF end = next THEN ReadErr("cannot parse integer from empty string")
       ELSE ReadOk(parse_number(SubSeq(data, next, end - 1), 0), end)

RECURSIVE take_text(_, _)
\* the place of the first byte from next on that is NUL or an ASCII digit
take_text(data, next) ==
    IF next <= Len(data) /\ data[next] # NUL /\ ~ is_ascii_digit(data[next])
    THEN take_text(data, next + 1)
    ELSE next

read_text(data, next) ==
    LET end == take_text(data, next)
        text == from_utf8(SubSeq(data, next, end - 1))
    IN IF text.ok THEN ReadOk(text.val, end) ELSE ReadErr(text.err)

\* anchor[..prefix_len].to_owned() + &text; the slice panics out of range
\* or off a char boundary
front_decode(anchor, prefix_len, text) ==
    LET bytes == as_bytes(anchor)
    IN IF prefix_len > Len(bytes)
          \/ (prefix_len < Len(bytes) /\ is_cont(bytes[prefix_len + 1]))
       THEN ReadErr("panic")
       ELSE LET head == from_utf8(SubSeq(bytes, 1, prefix_len))
            IN ReadOk(head.val \o text, 0)

RECURSIVE read_dictionary_loop(_, _, _)
read_dictionary_loop(data, next, terms) ==
    IF next > Len(data) THEN ReadOk(terms, next)
    ELSE IF data[next] = NUL THEN ReadOk(terms, next + 1)
    ELSE LET prefix_len == read_number(data, next)
         IN IF ~ prefix_len.ok THEN prefix_len
            ELSE LET text == read_text(data, prefix_len.next)
                 IN IF ~ text.ok THEN text
                    ELSE IF terms = <<>>
                         THEN read_dictionary_loop(data, text.next, <<text.val>>)
                         ELSE LET term == front_decode(terms[Len(terms)],
                                                       prefix_len.val, text.val)
                              IN IF ~ term.ok THEN term
                                 ELSE read_dictionary_loop(data, text.next,
                                                           Append(terms, term.val))

read_dictionary_compressed(data, next) == read_dictionary_loop(data, next, <<>>)

RECURSIVE read_postings(_, _, _, _, _)
\* for _ in 0..document_count: the deltas are summed into document ids
read_postings(data, next, remaining, prev_document_id, documents) ==
    IF remaining = 0 THEN ReadOk(documents, next)
    ELSE LET delta == vb_decode(data, next)
             document_id == prev_document_id + usize_small(delta.val)
         IN read_postings(data, delta.next, remaining - 1, document_id,
                          documents \cup {document_id})

RECURSIVE read_index_loop(_, _, _, _, _)
\* for term in terms.drain(..): index.insert(term, documents)
read_index_loop(data, next, terms, k, index) ==
    IF k > Len(terms) THEN index
    ELSE LET count == vb_decode(data, next)
             documents == read_postings(data, count.next,
                                        usize_small(count.val), 0, {})
         IN read_index_loop(data, documents.next, terms, k + 1,
                            MapPut(index, terms[k], documents.val))

\* Ok(InvertedIndex) or the error returned
read_compressed(data) ==
    LET terms == read_dictionary_compressed(data, 1)
    IN IF ~ terms.ok THEN Err(terms.err)
       ELSE LET index == read_index_loop(data, terms.next, terms.val, 1, EmptyMap)
            IN Ok([documents |-> UNION {index[t] : t \in DOMAIN index},
                   index |-> index])

PersistTerms == {<<97>>, <<97, 98>>, <<1072, 1073>>, <<1072, 1074>>, <<1073>>}

PersistDocs == {0, 1, 300}

MaxPostings == 3

RECURSIVE add_terms(_, _, _)
\* add_term for every term of the document
add_terms(index, terms, document_id) ==
    IF terms = {} THEN index
    ELSE LET term == CHOOSE t \in terms : TRUE
         IN add_terms(pw6_add_term(index, term, document_id), terms \ {term}, document_id)

RECURSIVE merge_documents(_, _)
\* the merge of the per-document indexes of the postings
merge_documents(postings, documents) ==
    IF documents = {} THEN pw6_new
    ELSE LET d == CHOOSE x \in documents : TRUE
         IN pw6_merge(merge_documents(postings, documents \ {d}),
                      add_terms(pw6_new, {p[1] : p \in {q \in postings : q[2] = d}}, d))

PostingSets == {S \in SUBSET (PersistTerms \X PersistDocs) : Cardinality(S) <= MaxPostings}

PersistInit ==
    /\ \E S \in PostingSets : p_index = merge_documents(S, PersistDocs)
    /\ p_bytes = <<>>
    /\ p_cut = 0
    /\ p_read = <<>>
    /\ m_idle /\ b_idle /\ q_idle /\ v_idle /\ e_idle

\* save_compressed into a file
Save ==
    /\ p_bytes = <<>>
    /\ p_bytes' = save_compressed(p_index)
    /\ p_cut' = Len(p_bytes')
    /\ UNCHANGED <<p_index, p_read, m_vars, b_vars, q_vars, v_vars, e_vars>>

\* the file loses its end before it is read
Truncate(k) ==
    /\ p_bytes # <<>> /\ p_read = <<>>
    /\ p_cut = Len(p_bytes) /\ k < p_cut
    /\ p_cut' = k
    /\ UNCHANGED <<p_index, p_bytes, p_read, m_vars, b_vars, q_vars, v_vars, e_vars>>

\* read_compressed of the bytes the file holds
Read ==
    /\ p_bytes # <<>> /\ p_read = <<>>
    /\ p_read' = read_compressed(SubSeq(p_bytes, 1, p_cut))
    /\ UNCHANGED <<p_index, p_bytes, p_cut, m_vars, b_vars, q_vars, v_vars, e_vars>>

PersistNext ==
    \/ Save
    \/ \E k \in 0 .. Len(p_bytes) : Truncate(k)
    \/ Read

SpecPersist == PersistInit /\ [][PersistNext]_vars

\* C8: read_compressed of what save_compressed wrote is the index saved:
\* the same terms, the same documents of each term, the same universe
C8_RoundTrip ==
    (p_read # <<>> /\ p_cut = Len(p_bytes)) => p_read = Ok(p_index)

C8_Witness ==
    /\ p_read = Ok(p_index) /\ p_cut = Len(p_bytes)
    /\ {<<1072, 1073>>, <<1072, 1074>>} \subseteq DOMAIN p_index.index
    /\ \E t \in DOMAIN p_index.index : {0, 300} \subseteq p_index.index[t]

\* C10: read_compressed of a stream that ends early (before the NUL of the
\* dictionary, or before or inside an expected variable-byte integer)
\* returns an error, never Ok
C10_TruncatedStreamIsError ==
    (p_read # <<>> /\ p_cut < Len(p_bytes)) => ~ p_read.ok

-----------------------------------------------------------------------------
(* The query language (pw6 query_lang.rs): Lexer                           *)

Token(kind) == [kind |-> kind]
TokenTerm(term) == [kind |-> "Term", term |-> term]
TokenNumber(number) == [kind |-> "Number", number |-> number]

\* char::is_whitespace
is_whitespace(ch) ==
    ch \in (9 .. 13) \cup {32, 133, 160, 5760, 8232, 8233, 8239, 8287, 12288}
           \cup (8192 .. 8202)

RECURSIVE try_consume_term(_, _, _)
\* Some(token) or None (<<>>), and the place of the iterator afterwards
try_consume_term(text, next, word) ==
    IF next > Len(text) THEN [token |-> <<>>, next |-> next]
    ELSE LET ch == text[next]
         IN IF IsAlphabetic(ch) \/ (ch = Apostrophe /\ word # <<>>)
            THEN try_consume_term(text, next + 1, word \o ToLowercase(ch))
            ELSE IF word # <<>> THEN [token |-> TokenTerm(word), next |-> next]
            ELSE [token |-> <<>>, next |-> next]

try_consume_punctuator(text, next) ==
    IF next > Len(text) THEN [token |-> <<>>, next |-> next]
    ELSE LET ch == text[next]
             kind == CASE ch = 38 -> "Ampersand"
                       [] ch = 124 -> "Pipe"
                       [] ch = 33 -> "Exclaim"
                       [] ch = 40 -> "LeftRoundBracket"
                       [] ch = 41 -> "RightRoundBracket"
                       [] ch = 123 -> "LeftCurlyBracket"
                       [] ch = 125 -> "RightCurlyBracket"
                       [] ch = 62 -> "GreaterThan"
                       [] ch = 34 -> "DoubleQuotes"
                       [] ch = 92 -> "Backslash"
                       [] OTHER -> "None"
         IN IF kind = "None" THEN [token |-> <<>>, next |-> next]
            ELSE [token |-> Token(kind), next |-> next + 1]

RECURSIVE skip_whitespaces(_, _)
skip_whitespaces(text, next) ==
    IF next <= Len(text) /\ is_whitespace(text[next])
    THEN skip_whitespaces(text, next + 1) ELSE next

\* the head digit was taken; the digits after it are read and parsed
consume_number_with_head(text, next) ==
    LET end == take_digits(text, next)
    IN [token |-> TokenNumber(parse_number(SubSeq(text, next - 1, end - 1), 0)),
        next |-> end]

RECURSIVE lex_loop(_, _, _)
lex_loop(text, next, tokens) ==
    IF next > Len(text) THEN Ok(tokens)
    ELSE LET ch == text[next]
             term == try_consume_term(text, next, <<>>)
         IN IF term.token # <<>>
            THEN lex_loop(text, term.next, Append(tokens, term.token))
            ELSE IF is_whitespace(ch)
            THEN lex_loop(text, skip_whitespaces(text, term.next), tokens)
            ELSE IF is_ascii_digit(ch)
            THEN LET number == consume_number_with_head(text, term.next + 1)
                 IN lex_loop(text, number.next, Append(tokens, number.token))
            ELSE LET punctuator == try_consume_punctuator(text, term.next)
                 IN IF punctuator.token # <<>>
                    THEN lex_loop(text, punctuator.next, Append(tokens, punctuator.token))
                    ELSE Err(<<"Encountered invalid character", ch>>)

\* Lexer::lex
query_lex(text) == lex_loop(text, 1, <<>>)

-----------------------------------------------------------------------------
(* The query language: Parser.  Both stacks are sequences, the top last.   *)

Operator(kind) == [kind |-> kind]
OperatorNear(distance) == [kind |-> "Near", distance |-> distance]

precedence(op) ==
    CASE op.kind = "Next" -> 100
      [] op.kind = "Near" -> 50
      [] op.kind = "Not" -> 4
      [] op.kind = "Subtract" -> 3
      [] op.kind = "And" -> 2
      [] op.kind = "Or" -> 1
      [] OTHER -> 0

from_token(token) ==
    CASE token.kind = "Ampersand" -> Operator("And")
      [] token.kind = "Pipe" -> Operator("Or")
      [] token.kind = "Exclaim" -> Operator("Not")
      [] token.kind = "Backslash" -> Operator("Subtract")

Stacks(operands, operators) == [ok |-> TRUE, operands |-> operands, operators |-> operators]

Front(s) == SubSeq(s, 1, Len(s) - 1)

Last(s) == s[Len(s)]

\* the top operator is popped and applied to the operands it pops
construct_operator(operators, operands) ==
    IF operators = <<>> THEN Err("Expected operator")
    ELSE LET op == Last(operators)
             rest == Front(operators)
             n == Len(operands)
         IN IF op.kind = "LeftBracket" THEN Err("Unexpected operator")
            ELSE IF op.kind = "Not"
            THEN IF n < 1 THEN Err("Missing argument")
                 ELSE Stacks(Append(Front(operands), NodeNot(Last(operands))), rest)
            ELSE IF n < 2 THEN Err("Missing argument")
            ELSE LET lhs == operands[n - 1]
                     rhs == operands[n]
                     below == SubSeq(operands, 1, n - 2)
                     node == CASE op.kind = "And" -> NodeAnd(lhs, rhs)
                               [] op.kind = "Or" -> NodeOr(lhs, rhs)
                               [] op.kind = "Near" ->
                                     NodeNear(lhs, rhs, op.distance, op.distance)
                               [] op.kind = "Next" -> construct_Next(lhs, rhs)
                               [] op.kind = "Subtract" -> NodeSubtract(lhs, rhs)
                 IN Stacks(Append(below, node), rest)

RECURSIVE pop_not_lower(_, _, _)
\* while the top operator's precedence is not below the incoming one's,
\* it is applied
pop_not_lower(operators, operands, operator) ==
    IF operators = <<>> \/ precedence(Last(operators)) < precedence(operator)
    THEN Stacks(operands, operators)
    ELSE LET st == construct_operator(operators, operands)
         IN IF ~ st.ok THEN st ELSE pop_not_lower(st.operators, st.operands, operator)

RECURSIVE pop_to_bracket(_, _)
\* Token::RightRoundBracket: operators are applied down to the LeftBracket
pop_to_bracket(operators, operands) ==
    IF operators = <<>> THEN Stacks(operands, operators)
    ELSE IF Last(operators).kind = "LeftBracket" THEN Stacks(operands, Front(operators))
    ELSE LET st == construct_operator(operators, operands)
         IN IF ~ st.ok THEN st ELSE pop_to_bracket(st.operators, st.operands)

RECURSIVE phrase_loop(_, _, _, _)
\* Token::DoubleQuotes: the terms up to the closing quotes, Next between
\* neighbours; i is the place of the token peeked
phrase_loop(tokens, i, operands, operators) ==
    IF i > Len(tokens) THEN Err("Unclosed phrase literal double quotes")
    ELSE IF tokens[i].kind = "Term"
    THEN phrase_loop(tokens, i + 1, Append(operands, NodeTerm(tokens[i].term)),
                     IF i + 1 <= Len(tokens) /\ tokens[i + 1].kind = "Term"
                     THEN Append(operators, Operator("Next")) ELSE operators)
    ELSE IF tokens[i].kind = "DoubleQuotes"
    THEN [ok |-> TRUE, operands |-> operands, operators |-> operators, next |-> i + 1]
    ELSE Err("Unexpected token inside phrase literal")

RECURSIVE parse_loop(_, _, _, _)
\* the loop over the tokens
parse_loop(tokens, i, operands, operators) ==
    IF i > Len(tokens) THEN Stacks(operands, operators)
    ELSE LET token == tokens[i]
         IN CASE token.kind = "Term" ->
                    parse_loop(tokens, i + 1, Append(operands, NodeTerm(token.term)), operators)
              [] token.kind \in {"Ampersand", "Pipe", "Exclaim", "Backslash"} ->
                    LET st == pop_not_lower(operators, operands, from_token(token))
                    IN IF ~ st.ok THEN st
                       ELSE parse_loop(tokens, i + 1, st.operands,
                                       Append(st.operators, from_token(token)))
              [] token.kind = "LeftRoundBracket" ->
                    parse_loop(tokens, i + 1, operands,
                               Append(operators, Operator("LeftBracket")))
              [] token.kind = "RightRoundBracket" ->
                    LET st == pop_to_bracket(operators, operands)
                    IN IF ~ st.ok THEN st
                       ELSE parse_loop(tokens, i + 1, st.operands, st.operators)
              [] token.kind = "LeftCurlyBracket" ->
                    IF i + 1 <= Len(tokens) /\ tokens[i + 1].kind = "Number"
                    THEN IF i + 2 <= Len(tokens) /\ tokens[i + 2].kind = "RightCurlyBracket"
                         THEN parse_loop(tokens, i + 3, operands,
                                         Append(operators, OperatorNear(tokens[i + 1].number)))
                         ELSE Err("Expected closing '}' bracket for 'near' operator")
                    ELSE Err("Expected number for 'near' operator")
              [] token.kind = "GreaterThan" ->
                    parse_loop(tokens, i + 1, operands, Append(operators, Operator("Next")))
              [] token.kind = "DoubleQuotes" ->
                    LET st == phrase_loop(tokens, i + 1, operands, operators)
                    IN IF ~ st.ok THEN st
                       ELSE parse_loop(tokens, st.next, st.operands, st.operators)
              [] OTHER -> Err("Unexpected token")

RECURSIVE construct_all(_, _)
\* while !operator_stack.is_empty() { construct_operator }
construct_all(operators, operands) ==
    IF operators = <<>> THEN Stacks(operands, operators)
    ELSE LET st == construct_operator(operators, operands)
         IN IF ~ st.ok THEN st ELSE construct_all(st.operators, st.operands)

\* the stacks when every operator has been applied, or the error met
parse_stacks(tokens) ==
    LET st == parse_loop(tokens, 1, <<>>, <<>>)
    IN IF ~ st.ok THEN st ELSE construct_all(st.operators, st.operands)

\* Parser::parse
parse(tokens) ==
    LET st == parse_stacks(tokens)
    IN IF ~ st.ok THEN st
       ELSE IF Len(st.operands) > 1 THEN Err("Expected single expression")
       ELSE IF st.operands = <<>> THEN Ok(NodeFalse)
       ELSE Ok(Last(st.operands))

parse_logic_expr(input) ==
    LET tokens == query_lex(input)
    IN IF ~ tokens.ok THEN tokens ELSE parse(tokens.val)

-----------------------------------------------------------------------------
(* SpecParse: the query prompt of pw6.  A line is read and handed to       *)
(* query, which parses it and evaluates the AST on the index.              *)

MaxLexemes == 3

Space == 32

Lexemes ==
    {<<97>>, <<98>>, <<65>>, <<38>>, <<124>>, <<92>>, <<33>>, <<62>>,
     <<40>>, <<41>>, <<123>>, <<50>>, <<125>>, <<34>>, <<35>>}

\* the line ends with the newline read_line keeps, or at the end of input
Terminators == {<<>>, <<Newline>>}

RECURSIVE JoinLexemes(_)
\* the lexemes separated by single spaces
JoinLexemes(ls) ==
    IF ls = <<>> THEN <<>>
    ELSE IF Len(ls) = 1 THEN ls[1]
    ELSE ls[1] \o <<Space>> \o JoinLexemes(Tail(ls))

BinaryOps == {"And", "Or", "Subtract", "Near2", "Near3", "Next"}

OpLexemes(op) ==
    CASE op = "And" -> <<<<38>>>>
      [] op = "Or" -> <<<<124>>>>
      [] op = "Subtract" -> <<<<92>>>>
      [] op = "Near2" -> <<<<123>>, <<50>>, <<125>>>>
      [] op = "Near3" -> <<<<123>>, <<51>>, <<125>>>>
      [] op = "Next" -> <<<<62>>>>

OpOperator(op) ==
    CASE op = "Near2" -> OperatorNear(2)
      [] op = "Near3" -> OperatorNear(3)
      [] OTHER -> Operator(op)

\* the node the language defines for lhs op rhs
OpNode(op, lhs, rhs) ==
    CASE op = "And" -> NodeAnd(lhs, rhs)
      [] op = "Or" -> NodeOr(lhs, rhs)
      [] op = "Subtract" -> NodeSubtract(lhs, rhs)
      [] op = "Near2" -> NodeNear(lhs, rhs, 2, 2)
      [] op = "Near3" -> NodeNear(lhs, rhs, 3, 3)
      [] op = "Next" -> NodeNear(lhs, rhs, 0, 1)

\* the text of  a op1 b op2 c
PatternText(op1, op2, end) ==
    JoinLexemes(<<<<97>>>> \o OpLexemes(op1) \o <<<<98>>>> \o OpLexemes(op2) \o <<<<99>>>>)
        \o end

\* phrase literals of two and more of the words a, b, c
MaxPhraseWords == 3
PhraseSeqs == {ws \in SeqsUpTo({<<97>>, <<98>>, <<99>>}, MaxPhraseWords) : Len(ws) >= 2}
PhraseText(ws, end) == JoinLexemes(<<<<34>>>> \o ws \o <<<<34>>>>) \o end

QueryTexts ==
    {JoinLexemes(ls) \o end : ls \in SeqsUpTo(Lexemes, MaxLexemes), end \in Terminators}
        \cup {PatternText(op1, op2, end) :
                  op1 \in BinaryOps, op2 \in BinaryOps, end \in Terminators}
        \cup {PhraseText(ws, end) : ws \in PhraseSeqs, end \in Terminators}

\* the index the prompt runs on: documents "a b", "b a", "a a"
ParseIndex ==
    build_pw6([d \in QueryDocs |->
                  CASE d = 0 -> Render(<<<<97>>, <<98>>>>)
                    [] d = 1 -> Render(<<<<98>>, <<97>>>>)
                    [] OTHER -> Render(<<<<97>>, <<97>>>>)],
              Cardinality(QueryDocs))

ParseInit ==
    /\ x_text \in QueryTexts
    /\ x_index = ParseIndex
    /\ x_tokens = <<>>
    /\ x_operands = 0
    /\ x_result = <<>>
    /\ x_answer = <<>>
    /\ a_idle /\ n_idle /\ t_idle /\ d_idle

\* query(query_text, index, ctx).  x_tokens and x_operands record what the
\* lexer returned and how many operands the parser had left
ParseQuery ==
    /\ x_result = <<>>
    /\ LET tokens == query_lex(x_text)
           stacks == IF tokens.ok THEN parse_stacks(tokens.val) ELSE tokens
           ast == parse_logic_expr(x_text)
       IN /\ x_tokens' = tokens
          /\ x_operands' = IF stacks.ok THEN Len(stacks.operands) ELSE -1
          /\ x_result' = ast
          /\ x_answer' = IF ~ ast.ok THEN ast ELSE pw6_query(x_index, ast.val)
    /\ UNCHANGED <<x_text, x_index, a_vars, n_vars, t_vars, d_vars>>

ParseNext == ParseQuery

SpecParse == ParseInit /\ [][ParseNext]_vars

\* C11: in an unparenthesised query  a op1 b op2 c  whose two binary
\* operators have different precedence, the operator of higher precedence
\* is applied first, whichever of the two comes first.
C11_PrecedenceRespected ==
    \A op1 \in BinaryOps, op2 \in BinaryOps :
        (/\ x_result # <<>>
         /\ x_text = PatternText(op1, op2, <<Newline>>)
         /\ precedence(OpOperator(op1)) # precedence(OpOperator(op2)))
        => x_result =
               Ok(IF precedence(OpOperator(op1)) > precedence(OpOperator(op2))
                  THEN OpNode(op2, OpNode(op1, NodeTerm(<<97>>), NodeTerm(<<98>>)),
                              NodeTerm(<<99>>))
                  ELSE OpNode(op1, NodeTerm(<<97>>),
                              OpNode(op2, NodeTerm(<<98>>), NodeTerm(<<99>>))))

\* C12: operators of the same precedence associate to the left:
\* a op b op c  parses to the AST of  (a op b) op c.
C12_LeftAssociative ==
    \A op1 \in BinaryOps, op2 \in BinaryOps :
        (/\ x_result # <<>>
         /\ x_text = PatternText(op1, op2, <<Newline>>)
         /\ precedence(OpOperator(op1)) = precedence(OpOperator(op2)))
        => x_result =
               Ok(OpNode(op2, OpNode(op1, NodeTerm(<<97>>), NodeTerm(<<98>>)),
                         NodeTerm(<<99>>)))

\* C13: parse returns a node only when exactly one operand is left after
\* all operators have been applied, more than one operand left is the
\* error "Expected single expression", and no tokens at all is False.
C13_SingleExpression ==
    x_result # <<>> =>
        /\ x_result.ok =>
               \/ x_operands = 1
               \/ (x_tokens.val = <<>> /\ x_result.val = NodeFalse)
        /\ x_operands > 1 => x_result = Err("Expected single expression")
        /\ (x_tokens.ok /\ x_tokens.val = <<>>) => x_result = Ok(NodeFalse)

KnownChars ==
    {97, 98, 99, 65, Space, Newline, 50, 51, 38, 124, 33, 40, 41, 123, 125, 62, 34, 92}

UnknownCharacter(text) == \E k \in 1 .. Len(text) : text[k] \notin KnownChars

CountKind(tokens, kind) == Cardinality({k \in 1 .. Len(tokens) : tokens[k].kind = kind})

UnclosedPhrase(tokens) == CountKind(tokens, "DoubleQuotes") % 2 = 1

MissingDistance(tokens) ==
    \E k \in 1 .. Len(tokens) :
        /\ tokens[k].kind = "LeftCurlyBracket"
        /\ ~ (/\ k + 2 <= Len(tokens)
              /\ tokens[k + 1].kind = "Number"
              /\ tokens[k + 2].kind = "RightCurlyBracket")

\* a binary operator with nothing before it, or an operator with nothing
\* after it
DanglingOperator(tokens) ==
    /\ tokens # <<>>
    /\ \/ tokens[1].kind \in {"Ampersand", "Pipe", "Backslash", "GreaterThan"}
       \/ tokens[Len(tokens)].kind \in
              {"Ampersand", "Pipe", "Backslash", "GreaterThan", "Exclaim"}

\* two or more terms and nothing between them
SeveralExpressions(tokens) ==
    /\ Len(tokens) > 1
    /\ \A k \in 1 .. Len(tokens) : tokens[k].kind = "Term"

SyntaxError(text) ==
    \/ UnknownCharacter(text)
    \/ LET tokens == query_lex(text)
       IN /\ tokens.ok
          /\ \/ UnclosedPhrase(tokens.val)
             \/ MissingDistance(tokens.val)
             \/ DanglingOperator(tokens.val)
             \/ SeveralExpressions(tokens.val)

\* C14: a query with a syntax error makes parse_logic_expr return an
\* error, which is what query returns, and the index is what it was.
C14_SyntaxErrorIsError ==
    (x_result # <<>> /\ SyntaxError(x_text)) =>
        /\ ~ x_result.ok
        /\ x_answer = x_result
        /\ x_index = ParseIndex

AllAlphabetic(text) == \A k \in 1 .. Len(text) : IsAlphabetic(text[k])

\* C15: a word that runs up to the end of the input is emitted as a Term,
\* so a text that is one word and nothing else parses to the Term of the
\* lowercased word, the token the document tokeniser makes of it.
C15_TrailingWordIsTerm ==
    (x_result # <<>> /\ x_text # <<>> /\ AllAlphabetic(x_text)) =>
        /\ x_tokens = Ok(<<TokenTerm(Lex(x_text).tokens[1])>>)
        /\ x_result = Ok(NodeTerm(Lex(x_text).tokens[1]))

-----------------------------------------------------------------------------
(* The tf-idf index of pw8: vectors, leaders and followers, and the query. *)
(* An f64 is kept as an integer: log2 in tenths, a component of a vector   *)
(* in TfScale-ths of a tenth, a similarity in thousandths rounded down.    *)

\* 10 * log2(n), rounded, for n = 1 .. 8
Log2Tenths == <<0, 10, 16, 20, 23, 26, 28, 30>>

\* the least common multiple of the document lengths 1, 2 and 3, so that
\* the division by the document's term count is exact
TfScale == 2 * 3

RECURSIVE isqrt_search(_, _, _)
isqrt_search(x, lo, hi) ==
    IF lo >= hi THEN lo
    ELSE LET mid == (lo + hi + 1) \div 2
         IN IF mid * mid <= x THEN isqrt_search(x, mid, hi)
            ELSE isqrt_search(x, lo, mid - 1)

\* f64::sqrt as usize
isqrt(x) == isqrt_search(x, 0, IF x < 46340 THEN x ELSE 46340)

pw8_positions_count(positions, document_id) == MapGet(positions, document_id, 0)

pw8_positions_document_count(positions) == Cardinality(DOMAIN positions)

\* a DVector with one component for each term of the index
terms_count(self, document_id) ==
    [term \in DOMAIN self.index |-> pw8_positions_count(self.index[term], document_id)]

inverse_document_frequency(self) ==
    [term \in DOMAIN self.index |->
        Log2Tenths[Cardinality(DOMAIN self.documents) + 1]
            - Log2Tenths[pw8_positions_document_count(self.index[term]) + 1]]

\* terms_frequency(document_id).component_mul(inverse_document_frequency())
document_tf_idf(self, document_id) ==
    LET document_term_count == MapGet(self.documents, document_id, 0)
        idf == inverse_document_frequency(self)
    IN [term \in DOMAIN self.index |->
           (terms_count(self, document_id)[term] * TfScale * idf[term])
               \div document_term_count]

query_vector(self, terms) ==
    [term \in DOMAIN self.index |-> IF term \in terms THEN 1 ELSE 0]

dot(a, b) == SumOver([term \in DOMAIN a |-> a[term] * b[term]], DOMAIN a)

magnitude_squared(a) == dot(a, a)

cosine_sim(a, b) ==
    IF magnitude_squared(a) = 0 \/ magnitude_squared(b) = 0 THEN 0
    ELSE (1000 * dot(a, b)) \div isqrt(magnitude_squared(a) * magnitude_squared(b))

\* the comparators given to sorted_by: partial_cmp on the similarities,
\* reversed or not; TRUE when cmp(x, y) is Greater
sim_greater(x, y, reversed) == IF reversed THEN x[2] < y[2] ELSE x[2] > y[2]

RECURSIVE insert_by(_, _, _)
\* item goes behind every entry that is not greater than it
insert_by(sorted, item, reversed) ==
    IF sorted = <<>> THEN <<item>>
    ELSE IF sim_greater(Last(sorted), item, reversed)
    THEN Append(insert_by(Front(sorted), item, reversed), Last(sorted))
    ELSE Append(sorted, item)

RECURSIVE sorted_by(_, _)
\* Itertools::sorted_by, a stable sort
sorted_by(items, reversed) ==
    IF items = <<>> THEN <<>>
    ELSE insert_by(sorted_by(Front(items), reversed), Last(items), reversed)

take(items, count) == SubSeq(items, 1, IF count < Len(items) THEN count ELSE Len(items))

\* haystack is the sequence the iterator yields
closest_documents(vectors, count, needle, haystack) ==
    take(sorted_by([i \in 1 .. Len(haystack) |->
                       <<haystack[i], cosine_sim(vectors[haystack[i]], needle)>>],
                   FALSE),
         count)

\* the sequences that hold every element of S once
Orders(S) == {s \in [1 .. Cardinality(S) -> S] : \A x \in S : \E i \in DOMAIN s : s[i] = x}

\* the i-th components of a sequence of pairs
firsts(pairs) == [i \in 1 .. Len(pairs) |-> pairs[i][1]]

RECURSIVE select_followers(_, _, _)
\* the followers, in the order of the map, whose leaders hold the leader
select_followers(order, to_leaders, leader) ==
    IF order = <<>> THEN <<>>
    ELSE (IF \E i \in DOMAIN to_leaders[order[1]] : to_leaders[order[1]][i] = leader
          THEN <<order[1]>> ELSE <<>>) \o select_followers(Tail(order), to_leaders, leader)

\* InvertedIndex::preprocess; leader_ids is the head of the shuffle,
\* leader_order and follower_order the orders in which the leader set and
\* the followers_to_leaders map are iterated
\* mutant of preprocess: the leaders are given leaders too, like followers
preprocess_all_follow(self, follower_leader_count, leader_ids, leader_order, follower_order) ==
    LET vectors == [d \in DOMAIN self.documents |-> document_tf_idf(self, d)]
        followers_to_leaders ==
            [follower \in DOMAIN self.documents |->
                firsts(closest_documents(vectors, follower_leader_count,
                                         vectors[follower], leader_order))]
        all_order == leader_order \o follower_order
        attached == {l \in leader_ids :
                        select_followers(all_order, followers_to_leaders, l) # <<>>}
    IN [vectors |-> vectors,
        leaders |-> leader_ids,
        followers |-> [l \in attached |->
                          select_followers(all_order, followers_to_leaders, l)]]

preprocess(self, follower_leader_count, leader_ids, leader_order, follower_order) ==
    LET vectors == [d \in DOMAIN self.documents |-> document_tf_idf(self, d)]
        followers_to_leaders ==
            [follower \in DOMAIN self.documents \ leader_ids |->
                firsts(closest_documents(vectors, follower_leader_count,
                                         vectors[follower], leader_order))]
        attached == {l \in leader_ids :
                        select_followers(follower_order, followers_to_leaders, l) # <<>>}
    IN [vectors |-> vectors,
        leaders |-> leader_ids,
        followers |-> [l \in attached |->
                          select_followers(follower_order, followers_to_leaders, l)]]

RECURSIVE followers_of(_, _, _, _)
\* the followers of the leaders picked, each with its similarity
followers_of(leaders, followers, vectors, needle) ==
    IF leaders = <<>> THEN <<>>
    ELSE LET list == MapGet(followers, leaders[1][1], <<>>)
         IN [i \in 1 .. Len(list) |-> <<list[i], cosine_sim(needle, vectors[list[i]])>>]
                \o followers_of(Tail(leaders), followers, vectors, needle)

\* TermIndex::query of pw8
pw8_query(self, vectors, leaders_iter, followers, terms, leader_count) ==
    LET needle == query_vector(self, terms)
    IN IF magnitude_squared(needle) = 0
       THEN Err("Index doesn't contain any word from the query")
       ELSE LET leaders == closest_documents(vectors, leader_count, needle, leaders_iter)
            IN Ok(sorted_by(leaders \o followers_of(leaders, followers, vectors, needle),
                            TRUE))

-----------------------------------------------------------------------------
(* SpecTfIdf: the index of pw8 after the build, then preprocess, then a    *)
(* query.                                                                  *)

TfDocs == 4

\* the documents "a", "b", "a b", "b c"
TfTexts ==
    {Render(<<<<97>>>>), Render(<<<<98>>>>), Render(<<<<97>>, <<98>>>>),
     Render(<<<<98>>, <<99>>>>)}

TfTerms == {<<97>>, <<98>>, <<99>>}

RECURSIVE build_pw8(_, _)
\* the merge of the indexes of the documents 0 .. n - 1
build_pw8(corpus, n) ==
    IF n = 0 THEN pw8_new
    ELSE pw8_merge(build_pw8(corpus, n - 1), pw8_document_index(n - 1, corpus[n - 1]))

TfInit ==
    /\ \E n \in 1 .. TfDocs :
       \E corpus \in [0 .. n - 1 -> TfTexts] : t_index = build_pw8(corpus, n)
    /\ t_k = 0
    /\ t_vectors = <<>>
    /\ t_leaders = {}
    /\ t_followers = <<>>
    /\ t_result = <<>>
    /\ a_idle /\ n_idle /\ x_idle /\ d_idle

\* index.preprocess(follower_leader_count)
TfPreprocess ==
    /\ t_k = 0
    /\ \E follower_leader_count \in 1 .. 2 :
       \E leader_ids \in SUBSET DOMAIN t_index.documents :
           /\ Cardinality(leader_ids) = isqrt(Cardinality(DOMAIN t_index.documents))
           /\ \E leader_order \in Orders(leader_ids) :
              \E follower_order \in Orders(DOMAIN t_index.documents \ leader_ids) :
                  LET done == preprocess(t_index, follower_leader_count, leader_ids,
                                         leader_order, follower_order)
                  IN /\ t_k' = follower_leader_count
                     /\ t_vectors' = done.vectors
                     /\ t_leaders' = done.leaders
                     /\ t_followers' = done.followers
    /\ UNCHANGED <<t_index, t_result, a_vars, n_vars, x_vars, d_vars>>

\* index.query(terms, leader_count)
TfQuery ==
    /\ t_k # 0
    /\ t_result = <<>>
    /\ \E terms \in SUBSET TfTerms \ {{}} :
       \E leader_count \in 1 .. 2 :
       \E leader_order \in Orders(t_leaders) :
           t_result' = [terms |-> terms,
                        leader_count |-> leader_count,
                        answer |-> pw8_query(t_index, t_vectors, leader_order,
                                             t_followers, terms, leader_count)]
    /\ UNCHANGED <<t_index, t_k, t_vectors, t_leaders, t_followers, a_vars, n_vars, x_vars, d_vars>>

TfNext == TfPreprocess \/ TfQuery

SpecTfIdf == TfInit /\ [][TfNext]_vars

Min(a, b) == IF a < b THEN a ELSE b

\* the leaders a follower is attached to
AttachedTo(follower) ==
    {l \in DOMAIN t_followers :
        \E i \in DOMAIN t_followers[l] : t_followers[l][i] = follower}

\* picked holds count of the leaders, or all of them, and no leader left
\* out is more similar to the needle than one picked
MostSimilar(picked, count, needle) ==
    /\ picked \subseteq t_leaders
    /\ Cardinality(picked) = Min(count, Cardinality(t_leaders))
    /\ \A l \in picked : \A other \in t_leaders \ picked :
           cosine_sim(t_vectors[l], needle) >= cosine_sim(t_vectors[other], needle)

\* C16: closest_documents returns the count documents most similar to the
\* needle: preprocess(k) attaches every follower to its k most similar
\* leaders, and query picks the leader_count leaders most similar to the
\* query vector.
C16_ClosestAreMostSimilar ==
    /\ t_k # 0 =>
           \A f \in DOMAIN t_vectors \ t_leaders :
               MostSimilar(AttachedTo(f), t_k, t_vectors[f])
    /\ (t_result # <<>> /\ t_result.answer.ok) =>
           MostSimilar({t_result.answer.val[i][1] : i \in DOMAIN t_result.answer.val}
                           \cap t_leaders,
                       t_result.leader_count,
                       query_vector(t_index, t_result.terms))

\* C17: the answer of the query is ordered by similarity descending, and
\* entries of equal similarity by DocumentId ascending.
C17_AnswerOrder ==
    (t_result # <<>> /\ t_result.answer.ok) =>
        \A i \in DOMAIN t_result.answer.val : \A j \in DOMAIN t_result.answer.val :
            i < j =>
                /\ t_result.answer.val[i][2] >= t_result.answer.val[j][2]
                /\ t_result.answer.val[i][2] = t_result.answer.val[j][2]
                       => t_result.answer.val[i][1] <= t_result.answer.val[j][1]

-----------------------------------------------------------------------------
(* The dictionary builder of pw1: Dictionary, the lexer that fills it, and *)
(* add_file_to_dict.  A file is the text it holds; every file of the model *)
(* can be opened and is valid UTF-8.                                       *)

None == [some |-> FALSE]
Some(val) == [some |-> TRUE, val |-> val]

Dictionary_new == EmptyMap

\* mutant of Dictionary_add_word_with_count: the entry is only inserted
Dictionary_add_word_with_count_insert_only(self, word, count) ==
    IF word \in DOMAIN self THEN self ELSE MapPut(self, word, count)

\* entry(word).and_modify(+= count).or_insert(count)
Dictionary_add_word_with_count(self, word, count) ==
    MapPut(self, word, IF word \in DOMAIN self THEN self[word] + count ELSE count)

Dictionary_add_word(self, word) == Dictionary_add_word_with_count(self, word, 1)

RECURSIVE Dictionary_merge_drain(_, _, _)
Dictionary_merge_drain(self, other, left) ==
    IF left = {} THEN self
    ELSE LET word == CHOOSE w \in left : TRUE
         IN Dictionary_merge_drain(Dictionary_add_word_with_count(self, word, other[word]),
                                   other, left \ {word})

Dictionary_merge(self, other) == Dictionary_merge_drain(self, other, DOMAIN other)

Dictionary_unique_word_count(self) == Cardinality(DOMAIN self)

Dictionary_total_word_count(self) == SumOver(self, DOMAIN self)

\* mutant of pw1_ignore_character: a newline does not start a line
pw1_ignore_character_no_lines(stats, ch) ==
    [stats EXCEPT !.characters_ignored = @ + 1]

\* the character is not part of a word: it is counted as ignored, and a
\* newline starts a line
pw1_ignore_character(stats, ch) ==
    [stats EXCEPT !.characters_ignored = @ + 1,
                  !.lines = IF ch = Newline THEN @ + 1 ELSE @]

RECURSIVE lex_to_dictionary_loop(_, _, _, _, _)
lex_to_dictionary_loop(text, i, word, dict, stats) ==
    IF i > Len(text)
    THEN [dict |-> IF word # <<>> THEN Dictionary_add_word(dict, word) ELSE dict,
          stats |-> stats]
    ELSE LET ch == text[i]
             read == [stats EXCEPT !.characters_read = @ + 1]
         IN IF IsAlphabetic(ch) \/ (ch = Apostrophe /\ word # <<>>)
            THEN lex_to_dictionary_loop(text, i + 1, word \o ToLowercase(ch), dict, read)
            ELSE lex_to_dictionary_loop(
                     text, i + 1, <<>>,
                     IF word # <<>> THEN Dictionary_add_word(dict, word) ELSE dict,
                     pw1_ignore_character(read, ch))

\* Lexer::lex_to_dictionary
lex_to_dictionary(text, dict) ==
    lex_to_dictionary_loop(text, 1, <<>>, dict, [LexerStatsDefault EXCEPT !.lines = 1])

\* mutant of Document_new: the length of the file is not looked at
Document_new_any_length(text) == Some(text)

\* Document::new: a file of length 0 is no document
Document_new(text) == IF Len(as_bytes(text)) = 0 THEN None ELSE Some(text)

add_file_to_dict(text) ==
    LET document == Document_new(text)
    IN IF document.some
       THEN LET lexed == lex_to_dictionary(document.val, Dictionary_new)
            IN Some([dictionary |-> lexed.dict, stats |-> lexed.stats])
       ELSE None

\* the closure given to reduce
dict_reduce_op(a, b) ==
    [dictionary |-> Dictionary_merge(a.dictionary, b.dictionary),
     stats |-> LexerStats_merge(a.stats, b.stats)]

-----------------------------------------------------------------------------
(* SpecDict: main of pw1.  One job for each file sends the result of       *)
(* add_file_to_dict; main takes job_count items from the channel, drops    *)
(* the None ones and reduces the others.                                   *)

MaxChars == 3

MaxFiles == 2

\* a, A, b, the apostrophe, the blank, the newline, the Cyrillic capital Ya
DictChars == {97, 65, 98, Apostrophe, 32, Newline, 1071}

DictTexts == SeqsUpTo(DictChars, MaxChars)

\* the files of the folders of several files: "", "a", "A b"
FewTexts == {<<>>, <<97>>, <<65, 32, 98>>}

DictFolders ==
    {<<text>> : text \in DictTexts} \cup (SeqsUpTo(FewTexts, MaxFiles) \ {<<>>})

job_count == Len(d_files)

DictInit ==
    /\ d_files \in DictFolders
    /\ d_results = [job \in 1 .. Len(d_files) |-> <<>>]
    /\ d_chan = <<>>
    /\ d_taken = 0
    /\ d_acc = None
    /\ d_pc = "reducing"
    /\ a_idle /\ n_idle /\ x_idle /\ t_idle

\* a job of the pool: tx.send(add_file_to_dict(path).unwrap())
DictWorker(job) ==
    /\ d_results[job] = <<>>
    /\ d_results' = [d_results EXCEPT ![job] = add_file_to_dict(d_files[job])]
    /\ d_chan' = Append(d_chan, add_file_to_dict(d_files[job]))
    /\ UNCHANGED <<d_files, d_taken, d_acc, d_pc, a_vars, n_vars, x_vars, t_vars>>

\* rx.iter().take(job_count).flatten().reduce(..): one item is taken
DictReduce ==
    /\ d_pc = "reducing"
    /\ d_taken < job_count
    /\ d_chan # <<>>
    /\ d_taken' = d_taken + 1
    /\ d_chan' = Tail(d_chan)
    /\ d_acc' = IF ~ Head(d_chan).some THEN d_acc
                ELSE IF ~ d_acc.some THEN Head(d_chan)
                ELSE Some(dict_reduce_op(d_acc.val, Head(d_chan).val))
    /\ UNCHANGED <<d_files, d_results, d_pc, a_vars, n_vars, x_vars, t_vars>>

\* if let Some((dictionary, stats)) = result { .. } else { "No files were
\* processed." }
DictReport ==
    /\ d_pc = "reducing"
    /\ d_taken = job_count
    /\ d_pc' = IF d_acc.some THEN "report" ELSE "no_files"
    /\ UNCHANGED <<d_files, d_results, d_chan, d_taken, d_acc, a_vars, n_vars, x_vars, t_vars>>

DictNext == (\E job \in 1 .. job_count : DictWorker(job)) \/ DictReduce \/ DictReport

SpecDict == DictInit /\ [][DictNext]_vars

RECURSIVE InWord(_, _)
\* the k-th character is part of a word: a letter, or an apostrophe that
\* follows a character of a word
InWord(text, k) ==
    \/ IsAlphabetic(text[k])
    \/ (text[k] = Apostrophe /\ k > 1 /\ InWord(text, k - 1))

WordStarts(text) ==
    {k \in 1 .. Len(text) : InWord(text, k) /\ (k = 1 \/ ~ InWord(text, k - 1))}

RECURSIVE WordFrom(_, _)
\* the lowercased word that starts at k
WordFrom(text, k) ==
    IF k > Len(text) \/ ~ InWord(text, k) THEN <<>>
    ELSE ToLowercase(text[k]) \o WordFrom(text, k + 1)

\* the jobs that have run on a file that is not empty
Lexed == {job \in 1 .. job_count : d_results[job] # <<>> /\ d_results[job].some}

\* C18: characters_read is the number of characters of the input,
\* characters_ignored the number of characters that are neither a letter
\* nor an apostrophe inside a word, and lines is 1 plus the number of
\* newlines.
C18_LexerStats ==
    \A job \in Lexed :
        LET text == d_files[job]
            stats == d_results[job].val.stats
        IN /\ stats.characters_read = Len(text)
           /\ stats.characters_ignored =
                  Cardinality({k \in 1 .. Len(text) : ~ InWord(text, k)})
           /\ stats.lines = 1 + Cardinality({k \in 1 .. Len(text) : text[k] = Newline})
           /\ (\A k \in 1 .. Len(text) : ~ IsAlphabetic(text[k]))
                  => stats.characters_ignored = stats.characters_read

\* a file with an apostrophe before a word, a letter and a newline is lexed
C18_Witness == 1 \in Lexed /\ d_files[1] = <<Apostrophe, 97, Newline>>

\* C19: after lexing a document total_word_count is the number of its
\* tokens and unique_word_count the number of its distinct lowercased
\* tokens.
C19_WordCounts ==
    \A job \in Lexed :
        LET text == d_files[job]
            dictionary == d_results[job].val.dictionary
        IN /\ Dictionary_total_word_count(dictionary) = Cardinality(WordStarts(text))
           /\ Dictionary_unique_word_count(dictionary) =
                  Cardinality({WordFrom(text, k) : k \in WordStarts(text)})

\* the file "A a" is lexed: two tokens, one entry
C19_Witness ==
    /\ 1 \in Lexed /\ d_files[1] = <<65, 32, 97>>
    /\ Dictionary_unique_word_count(d_results[1].val.dictionary) = 1
    /\ Dictionary_total_word_count(d_results[1].val.dictionary) = 2

NotEmpty == {job \in 1 .. job_count : d_files[job] # <<>>}

\* C20: add_file_to_dict returns None for a file of zero bytes; the merged
\* dictionary and statistics are those of the other files; when every
\* file is empty there is no result and "No files were processed." is
\* reported.
C20_EmptyFileSkipped ==
    /\ \A job \in 1 .. job_count :
           (d_results[job] # <<>> /\ d_files[job] = <<>>) => d_results[job] = None
    /\ d_pc # "reducing" =>
           IF NotEmpty = {} THEN d_pc = "no_files" /\ d_acc = None
           ELSE /\ d_pc = "report"
                /\ d_acc.some
                /\ d_acc.val.stats.lines =
                       SumOver([job \in NotEmpty |-> d_results[job].val.stats.lines],
                               NotEmpty)
                /\ d_acc.val.stats.characters_read =
                       SumOver([job \in NotEmpty |-> Len(d_files[job])], NotEmpty)
                /\ Dictionary_total_word_count(d_acc.val.dictionary) =
                       SumOver([job \in NotEmpty |->
                                   Cardinality(WordStarts(d_files[job]))], NotEmpty)

\* a folder of two empty files has been reported
C20_Witness ==
    /\ d_files = <<<<>>, <<>>>>
    /\ d_pc = "no_files"
    /\ d_results = <<None, None>>

-----------------------------------------------------------------------------
(* The segmented index of pw7: a term maps to a set of TermPosition,       *)
(* (document, segment_kind).                                               *)

TermPosition(document, segment_kind) ==
    [document |-> document, segment_kind |-> segment_kind]

pw7_new == [documents |-> {}, index |-> EmptyMap]

pw7_term_positions(self, term) == MapGet(self.index, term, {})

pw7_add_term(self, term, term_position) ==
    [documents |-> self.documents \cup {term_position.document},
     index |-> MapPut(self.index, term,
                      MapGet(self.index, term, {}) \cup {term_position})]

\* mutant of pw7_merge_term_positions: the entry of the term is replaced
pw7_merge_term_positions_replace(self, term, positions) ==
    [documents |-> self.documents \cup {position.document : position \in positions},
     index |-> MapPut(self.index, term, positions)]

pw7_merge_term_positions(self, term, positions) ==
    [documents |-> self.documents \cup {position.document : position \in positions},
     index |-> MapPut(self.index, term, MapGet(self.index, term, {}) \cup positions)]

RECURSIVE pw7_merge_drain(_, _, _)
pw7_merge_drain(self, other, left) ==
    IF left = {} THEN self
    ELSE LET term == CHOOSE t \in left : TRUE
         IN pw7_merge_drain(pw7_merge_term_positions(self, term, other.index[term]),
                            other, left \ {term})

pw7_merge(self, other) == pw7_merge_drain(self, other, DOMAIN other.index)

pw7_query(self, ast) ==
    CASE ast.kind = "False" -> Ok({})
      [] ast.kind = "Term" -> Ok(pw7_term_positions(self, ast.term))
      [] OTHER -> Err("Operation not supported.")

RECURSIVE pw7_lex_into(_, _, _, _)
pw7_lex_into(index, tokens, k, term_position) ==
    IF k > Len(tokens) THEN index
    ELSE pw7_lex_into(pw7_add_term(index, tokens[k], term_position),
                      tokens, k + 1, term_position)

\* Lexer::lex of pw7: every word of the segment is added with the
\* segment's kind
pw7_lex(index, text, document_id, segment_kind) ==
    pw7_lex_into(index, Lex(text).tokens, 1, TermPosition(document_id, segment_kind))

-----------------------------------------------------------------------------
(* SpecSeg: segments are lexed into the partial index of a document, the   *)
(* partial index is merged into the index, terms are added to the index.   *)

MaxSegCalls == 3

SegDocs == 0 .. 1

SegKinds == {"Title", "Body"}

SegInit ==
    /\ s_index = pw7_new
    /\ s_part = pw7_new
    /\ s_added = {}
    /\ s_part_added = {}
    /\ s_calls = 0
    /\ s_merges = 0
    /\ a_idle /\ x_idle /\ t_idle /\ d_idle /\ g_idle /\ w_idle /\ u_idle

\* index.add_term(term, TermPosition { document, segment_kind })
SegAddTerm ==
    /\ s_calls < MaxSegCalls
    /\ \E term \in Words, document \in SegDocs, segment_kind \in SegKinds :
           /\ s_index' = pw7_add_term(s_index, term, TermPosition(document, segment_kind))
           /\ s_added' = s_added \cup {<<term, document, segment_kind>>}
    /\ s_calls' = s_calls + 1
    /\ UNCHANGED <<s_part, s_part_added, s_merges,
                   a_vars, x_vars, t_vars, d_vars, g_vars, w_vars, u_vars>>

\* lexer.lex(&mut inverted_index, segment_kind) on a segment of the words ws
SegLex ==
    /\ s_calls < MaxSegCalls
    /\ \E ws \in SeqsUpTo(Words, MaxWords), document \in SegDocs, segment_kind \in SegKinds :
           /\ s_part' = pw7_lex(s_part, Render(ws), document, segment_kind)
           /\ s_part_added' =
                  s_part_added \cup {<<ws[i], document, segment_kind>> : i \in DOMAIN ws}
    /\ s_calls' = s_calls + 1
    /\ UNCHANGED <<s_index, s_added, s_merges,
                   a_vars, x_vars, t_vars, d_vars, g_vars, w_vars, u_vars>>

\* a.0.merge(b.0) of the reduction
SegMerge ==
    /\ s_calls < MaxSegCalls
    /\ s_index' = pw7_merge(s_index, s_part)
    /\ s_part' = pw7_new
    /\ s_added' = s_added \cup s_part_added
    /\ s_part_added' = {}
    /\ s_calls' = s_calls + 1
    /\ s_merges' = s_merges + 1
    /\ UNCHANGED <<a_vars, x_vars, t_vars, d_vars, g_vars, w_vars, u_vars>>

SegNext == SegAddTerm \/ SegLex \/ SegMerge

SpecSeg == SegInit /\ [][SegNext]_vars

\* the postings the calls so far have added for the term
AddedFor(term, added) ==
    {TermPosition(a[2], a[3]) : a \in {b \in added : b[1] = term}}

\* C21: after any sequence of add_term and merge calls, query(Term(t)) is
\* exactly the set of (document, segment_kind) pairs t was added for: two
\* kinds of one document are two postings, an addition made again adds
\* nothing.
C21_SegmentedPostings ==
    \A term \in Words \cup {AbsentWord} :
        /\ pw7_query(s_index, NodeTerm(term)) = Ok(AddedFor(term, s_added))
        /\ pw7_query(s_part, NodeTerm(term)) = Ok(AddedFor(term, s_part_added))

\* after a merge the term a has the two postings of document 0, title and
\* body, and nothing else
C21_Witness ==
    /\ s_merges > 0
    /\ s_calls = MaxSegCalls
    /\ pw7_query(s_index, NodeTerm(<<97>>)) =
           Ok({TermPosition(0, "Title"), TermPosition(0, "Body")})

-----------------------------------------------------------------------------
(* The positional algebra on its own: two or three TermPositions values,   *)
(* membership-only documents included, put through close_union and through *)
(* the operators &, | and \ (pw3 position.rs).                             *)

MaxPosition == 2
MaxDistance == 1
GDocs == 0 .. 1

\* the position sets a document can have: any set of positions for document
\* 0, at most one position for the other documents
GPositionSets(d) ==
    IF d = 0 THEN SUBSET (0 .. MaxPosition)
    ELSE {ps \in SUBSET (0 .. 1) : Cardinality(ps) <= 1}

GValues ==
    UNION {{f \in [D -> SUBSET (0 .. MaxPosition)] :
                \A d \in D : f[d] \in GPositionSets(d)} : D \in SUBSET GDocs}

GSmallValues ==
    {f \in GValues : \A d \in DOMAIN f : Cardinality(f[d]) <= 1 /\ f[d] \subseteq 0 .. 1}

GInit ==
    /\ g_a \in GValues
    /\ g_b \in GValues
    /\ g_c \in GSmallValues
    /\ g_out = <<>>
    /\ a_idle /\ x_idle /\ t_idle /\ d_idle /\ s_idle /\ w_idle /\ u_idle

GCloseUnion ==
    /\ g_out = <<>>
    /\ \E left \in 0 .. MaxDistance, right \in 0 .. MaxDistance :
          g_out' = [op |-> "close_union", left |-> left, right |-> right,
                    val |-> TermPositions_close_union(g_a, g_b, left, right)]
    /\ UNCHANGED <<g_a, g_b, g_c, a_vars, x_vars, t_vars, d_vars, s_vars, w_vars, u_vars>>

GOperators ==
    /\ g_out = <<>>
    /\ g_out' = [op |-> "operators",
                 and_ab |-> TermPositions_bitand(g_a, g_b),
                 and_ba |-> TermPositions_bitand(g_b, g_a),
                 or_ab |-> TermPositions_bitor(g_a, g_b),
                 or_ba |-> TermPositions_bitor(g_b, g_a),
                 and_ab_c |-> TermPositions_bitand(TermPositions_bitand(g_a, g_b), g_c),
                 and_a_bc |-> TermPositions_bitand(g_a, TermPositions_bitand(g_b, g_c)),
                 or_ab_c |-> TermPositions_bitor(TermPositions_bitor(g_a, g_b), g_c),
                 or_a_bc |-> TermPositions_bitor(g_a, TermPositions_bitor(g_b, g_c)),
                 and_aa |-> TermPositions_bitand(g_a, g_a),
                 or_aa |-> TermPositions_bitor(g_a, g_a),
                 sub_aa |-> TermPositions_sub(g_a, g_a),
                 sub_ab_b |-> TermPositions_sub(TermPositions_bitand(g_a, g_b), g_b)]
    /\ UNCHANGED <<g_a, g_b, g_c, a_vars, x_vars, t_vars, d_vars, s_vars, w_vars, u_vars>>

GNext == GCloseUnion \/ GOperators

SpecAlgebra == GInit /\ [][GNext]_vars

\* q lies in the window of p: p - left <= q <= p + right, the lower bound
\* clamped at 0
InWindow(p, q, left, right) ==
    /\ (IF p >= left THEN p - left ELSE 0) <= q
    /\ q <= p + right

\* the positions the rule of close_union gives document d: the p of A with a
\* q of B in their window, and the q of B in the window of some p of A
Matched(A, B, d, left, right) ==
    {p \in A[d] : \E q \in B[d] : InWindow(p, q, left, right)}
        \cup {q \in B[d] : \E p \in A[d] : InWindow(p, q, left, right)}

\* C22: close_union(A, B, left, right) has, for each document keyed in both,
\* every position p of A with some q of B in p - left <= q <= p + right
\* (lower bound clamped at 0) together with all such q; a p without such a q
\* is left out and a document left with no position is not in the result.
C22_CloseUnion ==
    (g_out # <<>> /\ g_out.op = "close_union") =>
        /\ DOMAIN g_out.val =
              {d \in DOMAIN g_a \cap DOMAIN g_b :
                  Matched(g_a, g_b, d, g_out.left, g_out.right) # {}}
        /\ \A d \in DOMAIN g_out.val :
              g_out.val[d] = Matched(g_a, g_b, d, g_out.left, g_out.right)

\* document 0 keeps the p = 2 of A with the q = 1 of B found left of it, the
\* p = 0 of A has no q in its window and is left out, and document 1, keyed
\* in both, is dropped
C22_Witness ==
    /\ g_out # <<>> /\ g_out.op = "close_union"
    /\ g_out.left = 1 /\ g_out.right = 0
    /\ DOMAIN g_a = {0, 1} /\ DOMAIN g_b = {0, 1}
    /\ g_a[0] = {0, 2}
    /\ g_out.val = (0 :> {1, 2})

\* C24: for all TermPositions values A, B, C, membership-only documents
\* included, & and | are commutative and associative, A & A = A, A | A = A,
\* A \ A is empty and (A & B) \ B is empty.
C24_AlgebraLaws ==
    (g_out # <<>> /\ g_out.op = "operators") =>
        /\ g_out.and_ab = g_out.and_ba
        /\ g_out.or_ab = g_out.or_ba
        /\ g_out.and_ab_c = g_out.and_a_bc
        /\ g_out.or_ab_c = g_out.or_a_bc
        /\ g_out.and_aa = g_a
        /\ g_out.or_aa = g_a
        /\ DOMAIN g_out.sub_aa = {}
        /\ DOMAIN g_out.sub_ab_b = {}

\* A has a membership-only document and a document with positions, B shares
\* a position with A, and the three values differ
C24_Witness ==
    /\ g_out # <<>> /\ g_out.op = "operators"
    /\ DOMAIN g_a = {0, 1} /\ g_a[0] = {0, 1} /\ g_a[1] = {}
    /\ DOMAIN g_b = {0, 1} /\ g_b[0] = {1, 2} /\ g_b[1] = {0}
    /\ DOMAIN g_c = {1}
    /\ g_out.and_ab = (0 :> {1} @@ 1 :> {})
    /\ g_out.or_ab_c # g_out.or_ab

-----------------------------------------------------------------------------
(* `A & B` on the positional index (pw3 position.rs, term_index.rs)        *)

\* the evaluated operands of an And query
AndLhs == pw3_query_rec(q_pos, q_ast.lhs)
AndRhs == pw3_query_rec(q_pos, q_ast.rhs)

IsPositionalAnd == q_kind = "pos" /\ q_ast.kind = "And"

\* C23: on the positional index `A & B` keeps a document only when the
\* intersection of its two position sets is non-empty, so every document
\* query returns has at least one position in the evaluated result.
C23_AndDropsEmptyDocuments ==
    IsPositionalAnd =>
        \A d \in q_result.val :
            /\ AndLhs[d] \cap AndRhs[d] # {}
            /\ pw3_query_rec(q_pos, q_ast)[d] # {}

\* C23: `A & B` keeps every document keyed in both operands, with the
\* intersection of its two position sets as its set, empty or not; query
\* returns the documents keyed in the evaluated result, so for two terms
\* the documents that contain both.
C23_AndKeepsSharedDocuments ==
    IsPositionalAnd =>
        /\ q_result = Ok(DOMAIN AndLhs \cap DOMAIN AndRhs)
        /\ \A d \in q_result.val :
              pw3_query_rec(q_pos, q_ast)[d] = AndLhs[d] \cap AndRhs[d]
        /\ (q_ast.lhs.kind = "Term" /\ q_ast.rhs.kind = "Term") =>
              q_result = Ok(DocsWith(q_ast.lhs.term) \cap DocsWith(q_ast.rhs.term))

\* `a & b` returns a document that has both words, at different positions:
\* its intersection of position sets is empty
C23_Witness ==
    /\ IsPositionalAnd
    /\ q_ast = NodeAnd(NodeTerm(<<97>>), NodeTerm(<<98>>))
    /\ \E d \in q_result.val : AndLhs[d] # {} /\ AndRhs[d] # {} /\ AndLhs[d] \cap AndRhs[d] = {}
    /\ q_result.val # Universe

-----------------------------------------------------------------------------
(* Phrase literals and parentheses in the parser (pw6 query_lang.rs)       *)

RECURSIVE LeftFold(_)
\* ((w1 > w2) > ...) > wk
LeftFold(ws) ==
    IF Len(ws) = 1 THEN NodeTerm(ws[1])
    ELSE construct_Next(LeftFold(Front(ws)), NodeTerm(Last(ws)))

\* C25: a phrase literal "w1 w2 ... wk" parses to the left-folded AST
\* Near(Near(...Near(w1, w2, 0, 1)..., 0, 1), wk, 0, 1), the AST of
\* ((w1 > w2) > ...) > wk.
C25_PhraseLeftFolded ==
    \A ws \in PhraseSeqs :
        (x_result # <<>> /\ x_text = PhraseText(ws, <<Newline>>))
            => x_result = Ok(LeftFold(ws))

RECURSIVE BracketDepth(_, _)
\* the number of ( less the number of ) among the first n tokens
BracketDepth(tokens, n) ==
    IF n = 0 THEN 0
    ELSE BracketDepth(tokens, n - 1)
            + (CASE tokens[n].kind = "LeftRoundBracket" -> 1
                 [] tokens[n].kind = "RightRoundBracket" -> -1
                 [] OTHER -> 0)

\* a ) with no ( before it to match, or a ( that is never closed
Unbalanced(tokens) ==
    \/ \E n \in 1 .. Len(tokens) : BracketDepth(tokens, n) < 0
    \/ BracketDepth(tokens, Len(tokens)) > 0

\* C30: a query with a ) that has no matching ( before it, and a query with
\* a ( that is never closed, both make parse return an error.
C30_UnbalancedParenthesesRejected ==
    (x_result # <<>> /\ x_tokens.ok /\ Unbalanced(x_tokens.val)) => ~ x_result.ok

-----------------------------------------------------------------------------
(* The two-word index under a sequence of add_term calls (pw3              *)
(* two_word_index.rs)                                                      *)

MaxBigramCalls == 4
BigramDocs == 0 .. 1

BigramInit ==
    /\ w_index = TwoWordIndex_new
    /\ w_calls = <<>>
    /\ a_idle /\ x_idle /\ t_idle /\ d_idle /\ s_idle /\ g_idle /\ u_idle

\* the lexer passes the next token of a document to add_term
BigramAddTerm ==
    /\ Len(w_calls) < MaxBigramCalls
    /\ \E word \in Words, document_id \in BigramDocs :
          /\ w_index' = TwoWordIndex_add_term(w_index, word, document_id)
          /\ w_calls' = Append(w_calls, <<word, document_id>>)
    /\ UNCHANGED <<a_vars, x_vars, t_vars, d_vars, s_vars, g_vars, u_vars>>

BigramNext == BigramAddTerm

SpecBigram == BigramInit /\ [][BigramNext]_vars

\* the keys of the index that have the document in their set
KeysFor(d) == {t \in DOMAIN w_index.index : d \in w_index.index[t]}

\* the keys of the pairs of consecutive calls that both belong to d
PairsFor(d) ==
    {w_calls[i][1] \o <<Underscore>> \o w_calls[i + 1][1] :
        i \in {j \in 1 .. Len(w_calls) - 1 : w_calls[j][2] = d /\ w_calls[j + 1][2] = d}}

\* C26: after the tokens w1..wn of a document d went through add_term in
\* order, the key wi_w(i+1) maps to a set with d for every i and d is under
\* no other key; two consecutive calls of different documents create no key.
C26_BigramKeys ==
    /\ \A d \in BigramDocs : KeysFor(d) = PairsFor(d)
    /\ \A t \in DOMAIN w_index.index : w_index.index[t] # {}

\* a b of document 0, then b a of document 1: a_b for 0, b_a for 1, and no
\* key b_b for the pair that crosses the documents
C26_Witness ==
    /\ w_calls = <<<<<<97>>, 0>>, <<<<98>>, 0>>, <<<<98>>, 1>>, <<<<97>>, 1>>>>
    /\ DOMAIN w_index.index = {<<97, Underscore, 98>>, <<98, Underscore, 97>>}
    /\ w_index.index[<<97, Underscore, 98>>] = {0}
    /\ w_index.index[<<98, Underscore, 97>>] = {1}

-----------------------------------------------------------------------------
(* Leaders and followers of the TF-IDF index (pw8 term_index.rs)           *)

TfDocuments == DOMAIN t_index.documents

\* the documents listed under some leader
ListedFollowers ==
    {t_followers[l][i] : <<l, i>> \in
        UNION {{<<k, j>> : j \in DOMAIN t_followers[k]} : k \in DOMAIN t_followers}}

\* C27: after preprocess(k) on N documents the leaders and the followers are
\* disjoint and together all N documents, there are floor(sqrt(N)) leaders,
\* every key of the leader-to-followers map is a leader and every document
\* listed under a leader is a follower.
C27_LeaderFollowerPartition ==
    t_k # 0 =>
        LET leader_count == Cardinality(t_leaders)
            N == Cardinality(TfDocuments)
        IN /\ t_leaders \subseteq TfDocuments
           /\ leader_count * leader_count <= N
           /\ N < (leader_count + 1) * (leader_count + 1)
           /\ DOMAIN t_followers \subseteq t_leaders
           /\ ListedFollowers \cap t_leaders = {}
           /\ ListedFollowers \cup t_leaders = TfDocuments
           /\ DOMAIN t_vectors = TfDocuments

\* three documents: one leader, the other two listed under it
C27_Witness ==
    /\ t_k # 0
    /\ Cardinality(TfDocuments) = 3
    /\ Cardinality(t_leaders) = 1
    /\ Cardinality(ListedFollowers) = 2

\* C29: the list the TF-IDF query returns holds each document at most once,
\* for every preprocess(k) and leader_count, also when a follower is
\* attached to several of the chosen leaders.
C29_AnswerHasNoDuplicates ==
    (t_result # <<>> /\ t_result.answer.ok) =>
        \A i, j \in DOMAIN t_result.answer.val :
            i # j => t_result.answer.val[i][1] # t_result.answer.val[j][1]

-----------------------------------------------------------------------------
(* The text format of the doc-posting index (pw6 term_index.rs save, load) *)
(* and the universe of documents under add_term, merge, load and           *)
(* read_compressed.                                                        *)

TERM_POSITIONS_SEPARATOR == 58
POSITIONS_SEPARATOR == 44
PlusSign == 43

RECURSIVE save_documents(_, _)
\* the ids of the set in the order it is iterated, separated by commas
save_documents(documents, order) ==
    IF order = <<>> THEN <<>>
    ELSE IF Head(order) \notin documents THEN save_documents(documents, Tail(order))
    ELSE format_number(Head(order))
            \o (IF \E i \in 2 .. Len(order) : order[i] \in documents
                THEN <<POSITIONS_SEPARATOR>> ELSE <<>>)
            \o save_documents(documents, Tail(order))

RECURSIVE save_terms(_, _, _)
save_terms(self, term_order, document_order) ==
    IF term_order = <<>> THEN <<>>
    ELSE as_bytes(Head(term_order)) \o <<TERM_POSITIONS_SEPARATOR>>
            \o save_documents(self.index[Head(term_order)], document_order)
            \o <<Newline>>
            \o save_terms(self, Tail(term_order), document_order)

\* InvertedIndex::save; term_order is the order in which the hash map is
\* iterated, document_order the order of the documents in the hash sets
pw6_save(self, term_order, document_order) == save_terms(self, term_order, document_order)

\* the index of the first sep in s, 0 when there is none
find(s, sep) ==
    IF \E i \in DOMAIN s : s[i] = sep
    THEN CHOOSE i \in DOMAIN s : s[i] = sep /\ \A j \in 1 .. i - 1 : s[j] # sep
    ELSE 0

RECURSIVE split(_, _)
\* str::split: the pieces between the separators, one piece when there is
\* no separator
split(s, sep) ==
    LET i == find(s, sep)
    IN IF i = 0 THEN <<s>>
       ELSE <<SubSeq(s, 1, i - 1)>> \o split(SubSeq(s, i + 1, Len(s)), sep)

RECURSIVE lines(_)
\* BufRead::lines: the text up to each newline, and what follows the last
\* newline when it is not empty
lines(data) ==
    LET i == find(data, Newline)
    IN IF data = <<>> THEN <<>>
       ELSE IF i = 0 THEN <<data>>
       ELSE <<SubSeq(data, 1, i - 1)>> \o lines(SubSeq(data, i + 1, Len(data)))

\* usize::from_str: digits, after an optional plus sign
usize_from_str(str) ==
    LET digits == IF str # <<>> /\ Head(str) = PlusSign THEN Tail(str) ELSE str
    IN IF digits # <<>> /\ \A i \in DOMAIN digits : digits[i] \in 48 .. 57
       THEN Ok(parse_number(digits, 0))
       ELSE Err("invalid digit found in string")

RECURSIVE load_lines(_, _, _)
load_lines(ls, k, index) ==
    IF k > Len(ls)
    THEN Ok([documents |-> UNION {index[t] : t \in DOMAIN index}, index |-> index])
    ELSE LET parts == split(ls[k], TERM_POSITIONS_SEPARATOR)
         IN IF Len(parts) # 2 THEN Err("Expected term and document ids")
            ELSE LET ids == split(parts[2], POSITIONS_SEPARATOR)
                 IN IF \E i \in DOMAIN ids : ~ usize_from_str(ids[i]).ok
                    THEN Err("invalid digit found in string")
                    ELSE load_lines(ls, k + 1,
                            MapPut(index, parts[1],
                                   {usize_from_str(ids[i]).val : i \in DOMAIN ids}))

\* InvertedIndex::load of the text of a file (ASCII terms)
pw6_load(data) == load_lines(lines(data), 1, EmptyMap)

MaxUniverseOps == 3
UniverseDocs == {0, 1, 30}

UniverseInit ==
    /\ u_index = pw6_new
    /\ u_ops = 0
    /\ u_last = "new"
    /\ a_idle /\ x_idle /\ t_idle /\ d_idle /\ s_idle /\ g_idle /\ w_idle

UniverseAddTerm ==
    /\ u_ops < MaxUniverseOps
    /\ \E term \in Words, document_id \in UniverseDocs :
          u_index' = pw6_add_term(u_index, term, document_id)
    /\ u_ops' = u_ops + 1
    /\ u_last' = "add_term"
    /\ UNCHANGED <<a_vars, x_vars, t_vars, d_vars, s_vars, g_vars, w_vars>>

\* the index of one file is merged in
UniverseMerge ==
    /\ u_ops < MaxUniverseOps
    /\ \E document_id \in UniverseDocs, text \in Texts :
          u_index' = pw6_merge(u_index, pw6_add_file_to_index(document_id, text))
    /\ u_ops' = u_ops + 1
    /\ u_last' = "merge"
    /\ UNCHANGED <<a_vars, x_vars, t_vars, d_vars, s_vars, g_vars, w_vars>>

\* the index is saved as text and a file that holds the text, or its first
\* k bytes, is loaded
UniverseLoad ==
    /\ u_ops < MaxUniverseOps
    /\ \E term_order \in Orders(DOMAIN u_index.index) :
       \E document_order \in Orders(u_index.documents) :
          LET data == pw6_save(u_index, term_order, document_order)
          IN \E k \in 0 .. Len(data) :
                LET loaded == pw6_load(SubSeq(data, 1, k))
                IN loaded.ok /\ u_index' = loaded.val
    /\ u_ops' = u_ops + 1
    /\ u_last' = "load"
    /\ UNCHANGED <<a_vars, x_vars, t_vars, d_vars, s_vars, g_vars, w_vars>>

\* the same with the compressed format
UniverseReadCompressed ==
    /\ u_ops < MaxUniverseOps
    /\ LET data == save_compressed(u_index)
       IN \E k \in 0 .. Len(data) :
             LET loaded == read_compressed(SubSeq(data, 1, k))
             IN loaded.ok /\ u_index' = loaded.val
    /\ u_ops' = u_ops + 1
    /\ u_last' = "read_compressed"
    /\ UNCHANGED <<a_vars, x_vars, t_vars, d_vars, s_vars, g_vars, w_vars>>

UniverseNext ==
    \/ UniverseAddTerm
    \/ UniverseMerge
    \/ UniverseLoad
    \/ UniverseReadCompressed

SpecUniverse == UniverseInit /\ [][UniverseNext]_vars

\* the documents that have at least one term
DocumentsWithTerm == UNION {u_index.index[t] : t \in DOMAIN u_index.index}

\* C28: after any sequence of add_term, merge, load and read_compressed the
\* universe `documents` is the union of the document sets of all terms, so
\* Not(x) is the complement of x among the documents with at least one term.
C28_UniverseIsUnion ==
    /\ u_index.documents = DocumentsWithTerm
    /\ \A x \in {NodeFalse} \cup {NodeTerm(w) : w \in Words \cup {AbsentWord}} :
          pw6_query(u_index, NodeNot(x)) =
              Ok(DocumentsWithTerm \ pw6_query(u_index, x).val)

\* the index read back from a cut text file: 30 was cut to 3
C28_Witness ==
    /\ u_last = "load"
    /\ u_ops = MaxUniverseOps
    /\ u_index.documents = {0, 3}
    /\ pw6_query(u_index, NodeNot(NodeTerm(<<97>>))) = Ok({3})

====
